---------------------------- MODULE Spec2Model ----------------------------
(***************************************************************************)
(* Options UI of chrome-ssh-agent: the key list shown on the options page  *)
(* (mergeKeys), the add / passphrase / remove dialogs with their one-shot  *)
(* click handlers, and the four user flows (Add, Load, Unload, Remove)     *)
(* with their asynchronous calls to the key manager.                       *)
(*                                                                         *)
(* Go strings that the code compares with < (names, ids, base64 blobs) are *)
(* sequences of byte values, compared as Go compares strings.  Strings the *)
(* code only copies or prints (key types, error texts) are TLA+ strings.   *)
(***************************************************************************)
EXTENDS Integers, Sequences, FiniteSets, TLC

\* ------------------------------------------------------------------ bounds

\* Longest configured list and longest loaded list handed to mergeKeys.
MaxConfigured == 2
MaxLoaded == 2

\* Ids the manager hands out before Add fails for lack of storage.
MaxIDs == 2
\* Manager calls that can be in flight at once.
MaxCalls == 2
\* Flows (clicks on Add, Load, Unload, Remove) the user starts in one run.
MaxFlows == 3
\* Dialog openings that can be unresolved at once (more than one only where
\* the host has no modal dialogs).
MaxPending == 2
\* Close calls made on a dom.Dialog used on its own, and 'close' listeners
\* added to its element.
MaxCloses == 3
MaxListeners == 2
\* Set, Get and Delete calls made on a chrome.Storage used on its own.
MaxOps == 2
\* OnDOMContentLoaded registrations made on one document.
MaxRegs == 3
MaxBlobLen == 4
\* Arguments, targets and js.Value variables of a call of ExpandArgs.
MaxArgs == 2
MaxTargets == 3
MaxCells == 3

\* ----------------------------------------------------------------- strings

\* Go's s < t on strings: bytewise lexicographic, a proper prefix is smaller.
RECURSIVE StrLess(_, _)
StrLess(s, t) ==
    IF t = <<>> THEN FALSE
    ELSE IF s = <<>> THEN TRUE
    ELSE IF Head(s) < Head(t) THEN TRUE
    ELSE IF Head(s) > Head(t) THEN FALSE
    ELSE StrLess(Tail(s), Tail(t))

\* keys.InvalidID: the zero value of keys.ID, which mergeKeys leaves in
\* displayedKey.ID when a loaded key has no configured counterpart.
InvalidID == <<>>

\* One character of the standard base64 alphabet, as its byte value.
b64Char(v) ==
    IF v < 26 THEN 65 + v
    ELSE IF v < 52 THEN 97 + (v - 26)
    ELSE IF v < 62 THEN 48 + (v - 52)
    ELSE IF v = 62 THEN 43
    ELSE 47

\* The padding character '='.
b64Pad == <<61>>

\* base64.StdEncoding.EncodeToString: three bytes become four characters,
\* a last group of one or two bytes is padded with '='.
RECURSIVE EncodeToString(_)
EncodeToString(b) ==
    IF b = <<>> THEN <<>>
    ELSE IF Len(b) = 1 THEN
        << b64Char(b[1] \div 4), b64Char((b[1] % 4) * 16) >> \o b64Pad \o b64Pad
    ELSE IF Len(b) = 2 THEN
        << b64Char(b[1] \div 4),
           b64Char((b[1] % 4) * 16 + (b[2] \div 16)),
           b64Char((b[2] % 16) * 4) >> \o b64Pad
    ELSE
        << b64Char(b[1] \div 4),
           b64Char((b[1] % 4) * 16 + (b[2] \div 16)),
           b64Char((b[2] % 16) * 4 + (b[3] \div 64)),
           b64Char(b[3] % 64) >> \o EncodeToString(SubSeq(b, 4, Len(b)))

\* ---------------------------------------------------------------- mergeKeys

\* configuredMap: the configured key stored under id (a later entry of the
\* list overwrites an earlier one with the same id); NoKey when there is none.
NoKey == [ID |-> InvalidID, Name |-> <<>>, Encrypted |-> FALSE]

configuredMap(configured, id) ==
    LET hits == {i \in DOMAIN configured : configured[i].ID = id}
    IN  IF hits = {} THEN NoKey
        ELSE configured[CHOOSE i \in hits : \A j \in hits : j <= i]

\* loadedEntry without the lookup in configuredMap: the entry carries whatever
\* id the loaded key derives.
loadedEntryAnyID(configured, l) ==
    [ID |-> l.ID, Loaded |-> TRUE, Encrypted |-> FALSE,
     Name |-> configuredMap(configured, l.ID).Name,
     Type |-> l.Type, Blob |-> EncodeToString(l.Blob)]

\* The displayedKey appended for loaded key l.
loadedEntry(configured, l) ==
    LET dk == [ID |-> InvalidID, Loaded |-> TRUE, Encrypted |-> FALSE,
               Name |-> <<>>, Type |-> l.Type, Blob |-> EncodeToString(l.Blob)]
        ak == configuredMap(configured, l.ID)
    IN  IF l.ID # InvalidID /\ ak # NoKey
        THEN [dk EXCEPT !.ID = l.ID, !.Name = ak.Name]
        ELSE dk

\* loadedIds: the ids detected as being loaded.
loadedIds(configured, loaded) ==
    {loaded[i].ID : i \in {j \in DOMAIN loaded :
        loaded[j].ID # InvalidID /\ configuredMap(configured, loaded[j].ID) # NoKey}}

\* unloadedEntry without the copy of the Encrypted flag.
unloadedEntryNoFlag(a) ==
    [ID |-> a.ID, Loaded |-> FALSE, Encrypted |-> FALSE,
     Name |-> a.Name, Type |-> "", Blob |-> <<>>]

\* The displayedKey appended for configured key a that is not loaded.
unloadedEntry(a) ==
    [ID |-> a.ID, Loaded |-> FALSE, Encrypted |-> a.Encrypted,
     Name |-> a.Name, Type |-> "", Blob |-> <<>>]

\* The first loop: one entry per loaded key, in the order of the list.
loadedPart(configured, loaded) ==
    [i \in DOMAIN loaded |-> loadedEntry(configured, loaded[i])]

\* The second loop without its test of loadedIds: every configured key.
configuredPartAll(configured, ids) ==
    [i \in DOMAIN configured |->
        [ID |-> configured[i].ID, Loaded |-> FALSE,
         Encrypted |-> configured[i].Encrypted, Name |-> configured[i].Name,
         Type |-> "", Blob |-> <<>>]]

\* The second loop: the configured keys whose id is not in ids, in order.
RECURSIVE configuredPart(_, _)
configuredPart(configured, ids) ==
    IF configured = <<>> THEN <<>>
    ELSE (IF Head(configured).ID \in ids THEN <<>>
          ELSE <<unloadedEntry(Head(configured))>>)
         \o configuredPart(Tail(configured), ids)

\* A comparison by Name and ID that leaves out the Blob.
lessNoBlob(a, b) ==
    IF StrLess(a.Name, b.Name) THEN TRUE
    ELSE IF StrLess(b.Name, a.Name) THEN FALSE
    ELSE StrLess(a.ID, b.ID)

\* The comparison handed to sort.Slice: by Name, then Blob, then ID.
less(a, b) ==
    IF StrLess(a.Name, b.Name) THEN TRUE
    ELSE IF StrLess(b.Name, a.Name) THEN FALSE
    ELSE IF StrLess(a.Blob, b.Blob) THEN TRUE
    ELSE IF StrLess(b.Blob, a.Blob) THEN FALSE
    ELSE StrLess(a.ID, b.ID)

\* sort.Slice on a slice of at most 12 elements is an insertion sort: each
\* element is moved left while it is less than its left neighbour, so
\* elements that compare equal keep the order they were appended in.
RECURSIVE insertLess(_, _)
insertLess(sorted, x) ==
    IF sorted = <<>> THEN <<x>>
    ELSE IF less(x, sorted[Len(sorted)])
         THEN insertLess(SubSeq(sorted, 1, Len(sorted) - 1), x)
              \o <<sorted[Len(sorted)]>>
         ELSE sorted \o <<x>>

RECURSIVE sortSlice(_)
sortSlice(s) ==
    IF s = <<>> THEN <<>>
    ELSE insertLess(sortSlice(SubSeq(s, 1, Len(s) - 1)), s[Len(s)])

mergeKeys(configured, loaded) ==
    sortSlice(loadedPart(configured, loaded)
              \o configuredPart(configured, loadedIds(configured, loaded)))


\* ------------------------------------------------------------ displayedKey

\* The value of a base64 character, -1 for a byte outside the alphabet.
b64Val(c) ==
    IF c >= 65 /\ c <= 90 THEN c - 65
    ELSE IF c >= 97 /\ c <= 122 THEN c - 97 + 26
    ELSE IF c >= 48 /\ c <= 57 THEN c - 48 + 52
    ELSE IF c = 43 THEN 62
    ELSE IF c = 47 THEN 63
    ELSE -1

\* base64.StdEncoding.DecodeString: [err, bytes].  Four characters give
\* three bytes; padding is accepted in the last group only.
RECURSIVE DecodeString(_)
DecodeString(s) ==
    IF s = <<>> THEN [err |-> FALSE, bytes |-> <<>>]
    ELSE IF Len(s) < 4 THEN [err |-> TRUE, bytes |-> <<>>]
    ELSE
        LET v1 == b64Val(s[1])
            v2 == b64Val(s[2])
            v3 == b64Val(s[3])
            v4 == b64Val(s[4])
            last == Len(s) = 4
            bad == [err |-> TRUE, bytes |-> <<>>]
        IN  IF v1 < 0 \/ v2 < 0 THEN bad
            ELSE IF last /\ <<s[3]>> = b64Pad /\ <<s[4]>> = b64Pad
                 THEN [err |-> FALSE, bytes |-> <<v1 * 4 + (v2 \div 16)>>]
            ELSE IF v3 < 0 THEN bad
            ELSE IF last /\ <<s[4]>> = b64Pad
                 THEN [err |-> FALSE,
                       bytes |-> <<v1 * 4 + (v2 \div 16),
                                   (v2 % 16) * 16 + (v3 \div 4)>>]
            ELSE IF v4 < 0 THEN bad
            ELSE LET rest == DecodeString(SubSeq(s, 5, Len(s)))
                 IN  IF rest.err THEN bad
                     ELSE [err |-> FALSE,
                           bytes |-> <<v1 * 4 + (v2 \div 16),
                                       (v2 % 16) * 16 + (v3 \div 4),
                                       (v3 % 4) * 64 + v4>> \o rest.bytes]

\* LoadedKey that hands on the text of the blob without decoding it.
LoadedKeyBlobAsIs(d) ==
    [err |-> "", key |-> [Type |-> d.Type, Blob |-> d.Blob]]

\* displayedKey.LoadedKey: the keys.LoadedKey the Unload control passes on.
LoadedKey(d) ==
    LET blob == DecodeString(d.Blob)
    IN  IF blob.err
        THEN [err |-> "failed to decode blob: illegal base64 data",
              key |-> [Type |-> "", Blob |-> <<>>]]
        ELSE [err |-> "", key |-> [Type |-> d.Type, Blob |-> blob.bytes]]

\* buttonKind
LoadButton == 0
UnloadButton == 1
RemoveButton == 2

\* buttonID: "load-<id>", "unload-<id>", "remove-<id>", as byte strings.
buttonID(kind, id) ==
    LET s == IF kind = LoadButton THEN <<108, 111, 97, 100>>
             ELSE IF kind = UnloadButton THEN <<117, 110, 108, 111, 97, 100>>
             ELSE IF kind = RemoveButton THEN <<114, 101, 109, 111, 118, 101>>
             ELSE <<117, 110, 107, 110, 111, 119, 110>>
    IN  s \o <<45>> \o id

\* A row whose controls cell is filled whatever the ID of the key is.
renderRowAnyID(k) ==
    [k |-> k,
     buttons |->
        <<(IF k.Loaded THEN buttonID(UnloadButton, k.ID)
           ELSE buttonID(LoadButton, k.ID)),
          buttonID(RemoveButton, k.ID)>>]

\* The row updateDisplayedKeys appends for k: the entry its click handlers
\* close over, and the ids of the buttons in its controls cell.
renderRow(k) ==
    [k |-> k,
     buttons |->
        IF k.ID = InvalidID THEN <<>>
        ELSE <<(IF k.Loaded THEN buttonID(UnloadButton, k.ID)
                ELSE buttonID(LoadButton, k.ID)),
               buttonID(RemoveButton, k.ID)>>]

\* updateDisplayedKeys: the children of keysData after the refresh.
updateDisplayedKeys(ks) == [i \in DOMAIN ks |-> renderRow(ks[i])]

\* setError: the children of errorText afterwards.  nil is the nil error.
nil == "<nil>"

setError(err) == IF err # nil THEN <<err>> ELSE <<>>

\* ------------------------------------------------------------------- state

VARIABLES
    \* The host: TRUE when the dialog elements have no showModal and no close
    \* (jsdom), and the document's readyState.
    degraded, readyState,
    \* The key manager: the configured keys (with their private key text), the
    \* keys held by the agent, and the next id to hand out.
    configured, loaded, nextID,
    \* The manager calls whose callback has not run yet.
    calls,
    \* UI.keys and the rows of keysData rendered from it.
    keys, rows,
    \* The children of the errorMessage element.
    errorText,
    \* The values of the addName, addKey and passphrase inputs, and the
    \* children of the removeName element.
    addName, addKey, passphraseInput, removeName,
    \* The click listeners of the six dialog controls, and the open state of
    \* the three dialogs.
    onclick, open,
    \* The click handler that is running: its position, its locals, and the
    \* listeners of the clicked control that are still to be invoked.
    pc, cur, disp,
    \* The number of flows the user has started, and the unresolved openings
    \* (those with a listener still registered or still to be invoked) whose
    \* outcome callback has been invoked.
    flows, delivered,
    \* mergeKeys called on its own: the position of the call, its two
    \* arguments and the list it returned.
    mpc, argConfigured, argLoaded, result,
    \* A dom.Dialog used on its own: the position of its user ("off" while the
    \* page or mergeKeys is what runs), the state of its simOnClose field, the
    \* 'close' listeners added to the element, whether the element is open,
    \* the 'close' events queued for it, the Close calls made, and the number of
    \* times an OnClose callback has been invoked.
    dpc, simOnClose, closeListeners, dialogOpen, closePending, closes, invoked,
    \* chrome.Storage used on its own: the items of the storage area, and the
    \* Set, Get and Delete calls made so far, each with its arguments, its
    \* one-time function and what its callback has received.
    store, sops,
    \* DOM.OnDOMContentLoaded used on its own: the registrations made so far,
    \* the registration whose OnDOMContentLoaded call has not returned yet (0
    \* when none), and whether the document has dispatched DOMContentLoaded.
    regs, inCall, fired,
    \* ExpandArgs and SingleArg called on their own: the position of the
    \* call, its args, the js.Value variables there are, the variables its
    \* targets point to (a variable can be pointed to more than once), and
    \* what SingleArg returned.
    epc, expArgs, cells, expTarget, single

hostVars == <<degraded, readyState>>
mgrVars == <<configured, loaded, nextID>>
viewVars == <<keys, rows>>
inputVars == <<addName, addKey, passphraseInput, removeName>>
runVars == <<pc, cur, disp>>
openingVars == <<flows, delivered>>
mergeVars == <<mpc, argConfigured, argLoaded, result>>
uiVars == <<hostVars, mgrVars, calls, viewVars, errorText, inputVars,
            onclick, open, runVars, openingVars>>
dialogVars == <<dpc, simOnClose, closeListeners, dialogOpen, closePending,
                closes, invoked>>
storageVars == <<store, sops>>
readyVars == <<regs, inCall, fired>>
expandVars == <<epc, expArgs, cells, expTarget, single>>
\* What the page leaves alone.
aloneVars == <<mergeVars, dialogVars, storageVars, readyVars, expandVars>>
\* What mergeKeys, a Dialog, a Storage and OnDOMContentLoaded used on their
\* own leave alone.
besideMerge == <<uiVars, dialogVars, storageVars, readyVars, expandVars>>
besideDialog == <<uiVars, mergeVars, storageVars, readyVars, expandVars>>
besideStorage == <<uiVars, mergeVars, dialogVars, readyVars, expandVars>>
besideReady == <<degraded, mgrVars, calls, viewVars, errorText, inputVars,
                 onclick, open, runVars, openingVars, mergeVars, dialogVars,
                 storageVars, expandVars>>
besideExpand == <<uiVars, mergeVars, dialogVars, storageVars, readyVars>>
vars == <<uiVars, mergeVars, dialogVars, storageVars, readyVars, expandVars>>

\* ------------------------------------------------------------- key manager

\* Private key texts a user can paste: an unencrypted key, a key encrypted
\* with the passphrase "good", and (the empty text) something that is no key.
PrivateKeys == {"", "plain", "enc"}
Passphrases == {"", "good"}
\* Names a user can type: "" and "a".
Names == {<<>>, <<97>>}

keyEncrypted(text) == text = "enc"
keyParses(text, passphrase) ==
    text = "plain" \/ (text = "enc" /\ passphrase = "good")
keyType(text) == IF text = "plain" THEN "ssh-rsa" ELSE "ssh-ed25519"
keyBlob(text) == IF text = "plain" THEN <<1>> ELSE <<2, 3>>

\* The id the manager assigns to its n-th key: "1", "2", ...
newID(n) == <<48 + n>>

\* Error texts of the manager.
ErrEmptyName == "invalid name: name must not be empty"
ErrPassphrase == "failed to parse private key: x509: decryption password incorrect"
ErrNoKey == "failed to parse private key: ssh: no key found"
ErrNotConfigured == "failed to find key"
ErrNotLoaded == "key unload failed: agent: key not found"
ErrUnavailable == "storage unavailable"

RemoveAt(s, i) == SubSeq(s, 1, i - 1) \o SubSeq(s, i + 1, Len(s))

\* Manager.Add: the errors it can report for these arguments (nil: success).
mgrAddErrors(name, key) ==
    IF name = <<>> THEN {ErrEmptyName}
    ELSE IF nextID > MaxIDs THEN {ErrUnavailable}
    ELSE {nil, ErrUnavailable}

mgrAdd(name, key) ==
    Append(configured, [ID |-> newID(nextID), Name |-> name,
                        Encrypted |-> keyEncrypted(key), Private |-> key])

\* Manager.Load
mgrLoadErrors(id, passphrase) ==
    LET hits == {i \in DOMAIN configured : configured[i].ID = id}
    IN  IF hits = {} THEN {ErrNotConfigured}
        ELSE LET k == configured[CHOOSE i \in hits : TRUE]
             IN  IF k.Private = "" THEN {ErrNoKey}
                 ELSE IF ~keyParses(k.Private, passphrase) THEN {ErrPassphrase}
                 ELSE {nil, ErrUnavailable}

\* The agent holds one key per blob: loading a key it holds replaces it.
mgrLoad(id) ==
    LET k == configured[CHOOSE i \in DOMAIN configured : configured[i].ID = id]
        l == [Type |-> keyType(k.Private), Blob |-> keyBlob(k.Private), ID |-> id]
        held == {i \in DOMAIN loaded : loaded[i].Blob = l.Blob}
    IN  IF held = {} THEN Append(loaded, l)
        ELSE [i \in DOMAIN loaded |-> IF i \in held THEN l ELSE loaded[i]]

\* Manager.Unload
mgrUnloadErrors(key) ==
    IF \E i \in DOMAIN loaded : loaded[i].Blob = key.Blob /\ loaded[i].Type = key.Type
    THEN {nil, ErrUnavailable}
    ELSE {ErrNotLoaded}

mgrUnload(key) ==
    RemoveAt(loaded, CHOOSE i \in DOMAIN loaded :
                        loaded[i].Blob = key.Blob /\ loaded[i].Type = key.Type)

\* Manager.Remove: removing an id that is not configured is no error.
mgrRemoveErrors(id) == {nil, ErrUnavailable}

RECURSIVE mgrRemoveFrom(_, _)
mgrRemoveFrom(list, id) ==
    IF list = <<>> THEN <<>>
    ELSE (IF Head(list).ID = id THEN <<>> ELSE <<Head(list)>>)
         \o mgrRemoveFrom(Tail(list), id)

mgrRemove(id) == mgrRemoveFrom(configured, id)

\* Manager.Configured and Manager.Loaded
mgrQueryErrors == {nil, ErrUnavailable}

mgrConfigured ==
    [i \in DOMAIN configured |->
        [ID |-> configured[i].ID, Name |-> configured[i].Name,
         Encrypted |-> configured[i].Encrypted]]

mgrLoaded == loaded

\* A manager call in flight: the operation and its arguments.
Call(op) ==
    [op |-> op, name |-> <<>>, key |-> "", id |-> InvalidID, passphrase |-> "",
     lkey |-> [Type |-> "", Blob |-> <<>>], configured |-> <<>>]
AddCall(name, key) == [Call("Add") EXCEPT !.name = name, !.key = key]
LoadCall(id, passphrase) ==
    [Call("Load") EXCEPT !.id = id, !.passphrase = passphrase]
UnloadCall(lkey) == [Call("Unload") EXCEPT !.lkey = lkey]
RemoveCall(id) == [Call("Remove") EXCEPT !.id = id]
ConfiguredCall == Call("Configured")
LoadedCall(c) == [Call("Loaded") EXCEPT !.configured = c]

\* ----------------------------------------------------------------- dialogs

Dialogs == {"add", "passphrase", "remove"}

\* The primary and the secondary control of a dialog.
okCtl(d) ==
    IF d = "add" THEN "addOk"
    ELSE IF d = "passphrase" THEN "passphraseOk" ELSE "removeYes"
cancelCtl(d) ==
    IF d = "add" THEN "addCancel"
    ELSE IF d = "passphrase" THEN "passphraseCancel" ELSE "removeNo"

Controls == {okCtl(d) : d \in Dialogs} \cup {cancelCtl(d) : d \in Dialogs}
dialogOf(c) == CHOOSE d \in Dialogs : c \in {okCtl(d), cancelCtl(d)}
isOk(c) == c = okCtl(dialogOf(c))

\* A ShowModal that never calls showModal.
ShowModalLogOnly(d) == open

\* ShowModal: a host without showModal only logs.
ShowModal(d) == IF degraded THEN open ELSE [open EXCEPT ![d] = TRUE]

\* Close: a host without close only logs.
Close(d) == IF degraded THEN open ELSE [open EXCEPT ![d] = FALSE]

\* The two OnClick calls of a prompt: h is what the two closures capture
\* (the opening, and the key id of the flow's callback).
OnClickBoth(d, h) ==
    [onclick EXCEPT ![okCtl(d)] = Append(@, h), ![cancelCtl(d)] = Append(@, h)]

\* The two RemoveEventListeners calls of a handler.
RemoveEventListenersBoth(d) ==
    [onclick EXCEPT ![okCtl(d)] = <<>>, ![cancelCtl(d)] = <<>>]

\* A modal dialog leaves the rest of the page inert, and a closed dialog's
\* controls cannot be clicked; a host without showModal has neither rule.
pageClickable == pc = "idle" /\ (degraded \/ \A d \in Dialogs : ~open[d])
StartFlow == flows < MaxFlows /\ flows' = flows + 1
dialogClickable(d) ==
    /\ pc = "idle"
    /\ IF degraded
       THEN onclick[okCtl(d)] # <<>> \/ onclick[cancelCtl(d)] # <<>>
       ELSE open[d]

\* The locals of a running click handler of control c, registered as h.
NoCur ==
    [ctl |-> "", serial |-> 0, id |-> InvalidID,
     name |-> <<>>, key |-> "", passphrase |-> ""]
Enter(c, h) == [NoCur EXCEPT !.ctl = c, !.serial = h.serial, !.id = h.id]

\* Openings are numbered; a number is in use while a listener of the opening
\* is registered, waiting to be invoked, or running.
SerialsOf(handlers) == {handlers[i].serial : i \in DOMAIN handlers}
InUse(oc, c, dq) ==
    UNION {SerialsOf(oc[x]) : x \in Controls} \cup SerialsOf(dq)
        \cup (IF c.ctl = "" THEN {} ELSE {c.serial})
CanOpen == \E n \in 1..MaxPending : n \notin InUse(onclick, cur, disp)
NewSerial ==
    CHOOSE n \in 1..MaxPending :
        /\ n \notin InUse(onclick, cur, disp)
        /\ \A m \in 1..(n - 1) : m \in InUse(onclick, cur, disp)

\* updateKeys: the Configured call it issues.
updateKeys(cs) == Append(cs, ConfiguredCall)

\* -------------------------------------------------------------------- Init

Init ==
    /\ degraded \in BOOLEAN
    /\ readyState = "loading"
    /\ configured = <<>>
    /\ loaded = <<>>
    /\ nextID = 1
    /\ calls = <<>>
    /\ keys = <<>>
    /\ rows = <<>>
    /\ errorText = <<>>
    /\ addName = <<>>
    /\ addKey = ""
    /\ passphraseInput = ""
    /\ removeName = <<>>
    /\ onclick = [c \in Controls |-> <<>>]
    /\ open = [d \in Dialogs |-> FALSE]
    /\ pc = "idle"
    /\ cur = NoCur
    /\ disp = <<>>
    /\ flows = 0
    /\ delivered = {}
    /\ mpc = "off"
    /\ argConfigured = <<>>
    /\ argLoaded = <<>>
    /\ result = <<>>
    /\ dpc = "off"
    /\ simOnClose = "undefined"
    /\ closeListeners = 0
    /\ dialogOpen = FALSE
    /\ closePending = 0
    /\ closes = 0
    /\ invoked = 0
    /\ store = <<>>
    /\ sops = <<>>
    /\ regs = <<>>
    /\ inCall = 0
    /\ fired = FALSE
    /\ epc = "off"
    /\ expArgs = <<>>
    /\ cells = <<>>
    /\ expTarget = <<>>
    /\ single = <<>>

\* ------------------------------------------------------------ page events

\* The DOMContentLoaded listener registered by New: updateKeys.
DOMContentLoaded ==
    /\ pc = "idle"
    /\ readyState = "loading"
    /\ readyState' = "complete"
    /\ calls' = updateKeys(calls)
    /\ UNCHANGED <<degraded, mgrVars, viewVars, errorText, inputVars, onclick,
                   open, runVars, openingVars, aloneVars>>

\* The user types into an input of a dialog that is showing (dom.SetValue).
SetAddName(v) ==
    /\ dialogClickable("add")
    /\ addName' = v
    /\ UNCHANGED <<hostVars, mgrVars, calls, viewVars, errorText, addKey,
                   passphraseInput, removeName, onclick, open, runVars,
                   openingVars, aloneVars>>

SetAddKey(v) ==
    /\ dialogClickable("add")
    /\ addKey' = v
    /\ UNCHANGED <<hostVars, mgrVars, calls, viewVars, errorText, addName,
                   passphraseInput, removeName, onclick, open, runVars,
                   openingVars, aloneVars>>

SetPassphrase(v) ==
    /\ dialogClickable("passphrase")
    /\ passphraseInput' = v
    /\ UNCHANGED <<hostVars, mgrVars, calls, viewVars, errorText, addName,
                   addKey, removeName, onclick, open, runVars, openingVars,
                   aloneVars>>

\* A click on the Add button: UI.add, which is promptAdd.
ClickAdd ==
    /\ pageClickable
    /\ StartFlow
    /\ CanOpen
    /\ onclick' = OnClickBoth("add", [serial |-> NewSerial, id |-> InvalidID])
    /\ open' = ShowModal("add")
    /\ UNCHANGED <<hostVars, mgrVars, calls, viewVars, errorText, inputVars,
                   runVars, delivered, aloneVars>>

\* UI.load without the dummy prompt: every key goes through promptPassphrase.
ClickLoadAlwaysPrompt(i) ==
    /\ pageClickable
    /\ StartFlow
    /\ i \in DOMAIN rows
    /\ rows[i].buttons # <<>>
    /\ rows[i].buttons[1] = buttonID(LoadButton, rows[i].k.ID)
    /\ CanOpen
    /\ onclick' = OnClickBoth("passphrase",
                      [serial |-> NewSerial, id |-> rows[i].k.ID])
    /\ open' = ShowModal("passphrase")
    /\ UNCHANGED <<hostVars, mgrVars, calls, viewVars, errorText, inputVars,
                   runVars, delivered, aloneVars>>

\* A click on the Load button of row i: UI.load(k.ID, k.Encrypted).  An
\* encrypted key goes through promptPassphrase; any other key through the
\* dummy prompt, which calls back at once and so calls Manager.Load.
ClickLoad(i) ==
    /\ pageClickable
    /\ StartFlow
    /\ i \in DOMAIN rows
    /\ rows[i].buttons # <<>>
    /\ rows[i].buttons[1] = buttonID(LoadButton, rows[i].k.ID)
    /\ IF rows[i].k.Encrypted
       THEN /\ CanOpen
            /\ onclick' = OnClickBoth("passphrase",
                              [serial |-> NewSerial, id |-> rows[i].k.ID])
            /\ open' = ShowModal("passphrase")
            /\ UNCHANGED calls
       ELSE /\ Len(calls) < MaxCalls
            /\ calls' = Append(calls, LoadCall(rows[i].k.ID, ""))
            /\ UNCHANGED <<onclick, open>>
    /\ UNCHANGED <<hostVars, mgrVars, viewVars, errorText, inputVars, runVars,
                   delivered, aloneVars>>

\* A click on the Unload button of row i: k.LoadedKey(), then UI.unload.
ClickUnload(i) ==
    /\ pageClickable
    /\ StartFlow
    /\ i \in DOMAIN rows
    /\ rows[i].buttons # <<>>
    /\ rows[i].buttons[1] = buttonID(UnloadButton, rows[i].k.ID)
    /\ LET l == LoadedKey(rows[i].k)
       IN  IF l.err # ""
           THEN /\ errorText' = setError("Failed to get loaded key: " \o l.err)
                /\ UNCHANGED calls
           ELSE /\ Len(calls) < MaxCalls
                /\ calls' = Append(calls, UnloadCall(l.key))
                /\ UNCHANGED errorText
    /\ UNCHANGED <<hostVars, mgrVars, viewVars, inputVars, onclick, open,
                   runVars, delivered, aloneVars>>

\* A click on the Remove button of row i: UI.remove, which is promptRemove.
ClickRemove(i) ==
    /\ pageClickable
    /\ StartFlow
    /\ i \in DOMAIN rows
    /\ rows[i].buttons # <<>>
    /\ rows[i].buttons[2] = buttonID(RemoveButton, rows[i].k.ID)
    /\ CanOpen
    /\ removeName' = <<rows[i].k.Name>>
    /\ onclick' = OnClickBoth("remove",
                      [serial |-> NewSerial, id |-> rows[i].k.ID])
    /\ open' = ShowModal("remove")
    /\ UNCHANGED <<hostVars, mgrVars, calls, viewVars, errorText, addName,
                   addKey, passphraseInput, runVars, delivered, aloneVars>>

\* ------------------------------------------------- dialog click handlers

\* A click on dialog control c: every listener registered on c is invoked,
\* in the order of registration.  (A click on a control without listeners
\* does nothing at all.)
ClickControl(c) ==
    /\ dialogClickable(dialogOf(c))
    /\ onclick[c] # <<>>
    /\ isOk(c) => Len(calls) + Len(onclick[c]) <= MaxCalls
    /\ pc' = "clear"
    /\ cur' = Enter(c, Head(onclick[c]))
    /\ disp' = Tail(onclick[c])
    /\ UNCHANGED <<hostVars, mgrVars, calls, viewVars, errorText, inputVars,
                   onclick, open, openingVars, aloneVars>>

\* Handlers of which only the confirming ones empty the inputs.
HandlerClearOkOnly ==
    /\ pc = "clear"
    /\ pc' = "deregister"
    /\ LET d == dialogOf(cur.ctl)
           ok == isOk(cur.ctl)
       IN  /\ cur' = IF ~ok THEN cur
                     ELSE IF d = "add"
                          THEN [cur EXCEPT !.name = addName, !.key = addKey]
                     ELSE IF d = "passphrase"
                          THEN [cur EXCEPT !.passphrase = passphraseInput]
                     ELSE cur
           /\ addName' = IF ok /\ d = "add" THEN <<>> ELSE addName
           /\ addKey' = IF ok /\ d = "add" THEN "" ELSE addKey
           /\ passphraseInput' =
                 IF ok /\ d = "passphrase" THEN "" ELSE passphraseInput
           /\ removeName' = IF d = "remove" THEN <<>> ELSE removeName
    /\ UNCHANGED <<hostVars, mgrVars, calls, viewVars, errorText, onclick,
                   open, disp, openingVars, aloneVars>>

\* Handlers that empty the inputs first and read them afterwards.
HandlerClearThenRead ==
    /\ pc = "clear"
    /\ pc' = "deregister"
    /\ LET d == dialogOf(cur.ctl)
       IN  /\ addName' = IF d = "add" THEN <<>> ELSE addName
           /\ addKey' = IF d = "add" THEN "" ELSE addKey
           /\ passphraseInput' = IF d = "passphrase" THEN "" ELSE passphraseInput
           /\ removeName' = IF d = "remove" THEN <<>> ELSE removeName
           /\ cur' = IF ~isOk(cur.ctl) THEN cur
                     ELSE IF d = "add"
                          THEN [cur EXCEPT !.name = addName', !.key = addKey']
                     ELSE IF d = "passphrase"
                          THEN [cur EXCEPT !.passphrase = passphraseInput']
                     ELSE cur
    /\ UNCHANGED <<hostVars, mgrVars, calls, viewVars, errorText, onclick,
                   open, disp, openingVars, aloneVars>>

\* The handler reads the inputs (the confirming handlers only) and empties
\* them; the remove handlers empty the removeName element.
HandlerClear ==
    /\ pc = "clear"
    /\ pc' = "deregister"
    /\ LET d == dialogOf(cur.ctl)
       IN  /\ cur' = IF ~isOk(cur.ctl) THEN cur
                     ELSE IF d = "add"
                          THEN [cur EXCEPT !.name = addName, !.key = addKey]
                     ELSE IF d = "passphrase"
                          THEN [cur EXCEPT !.passphrase = passphraseInput]
                     ELSE cur
           /\ addName' = IF d = "add" THEN <<>> ELSE addName
           /\ addKey' = IF d = "add" THEN "" ELSE addKey
           /\ passphraseInput' = IF d = "passphrase" THEN "" ELSE passphraseInput
           /\ removeName' = IF d = "remove" THEN <<>> ELSE removeName
    /\ UNCHANGED <<hostVars, mgrVars, calls, viewVars, errorText, onclick,
                   open, disp, openingVars, aloneVars>>

\* A handler that removes the listeners of the primary control only.
HandlerDeregisterOkOnly ==
    /\ pc = "deregister"
    /\ pc' = "close"
    /\ onclick' = [onclick EXCEPT ![okCtl(dialogOf(cur.ctl))] = <<>>]
    /\ UNCHANGED <<hostVars, mgrVars, calls, viewVars, errorText, inputVars,
                   open, cur, disp, openingVars, aloneVars>>

\* A handler that removes the listeners of the control that was clicked only.
HandlerDeregisterFiredOnly ==
    /\ pc = "deregister"
    /\ pc' = "close"
    /\ onclick' = [onclick EXCEPT ![cur.ctl] = <<>>]
    /\ UNCHANGED <<hostVars, mgrVars, calls, viewVars, errorText, inputVars,
                   open, cur, disp, openingVars, aloneVars>>

\* The handler removes the listeners of both controls of its dialog.
HandlerDeregister ==
    /\ pc = "deregister"
    /\ pc' = "close"
    /\ onclick' = RemoveEventListenersBoth(dialogOf(cur.ctl))
    /\ UNCHANGED <<hostVars, mgrVars, calls, viewVars, errorText, inputVars,
                   open, cur, disp, openingVars, aloneVars>>

\* The handler closes its dialog.
HandlerClose ==
    /\ pc = "close"
    /\ pc' = "callback"
    /\ open' = Close(dialogOf(cur.ctl))
    /\ UNCHANGED <<hostVars, mgrVars, calls, viewVars, errorText, inputVars,
                   onclick, cur, disp, openingVars, aloneVars>>

\* The manager call the flow's callback issues when the user confirmed.
flowCall(c) ==
    IF dialogOf(c.ctl) = "add" THEN AddCall(c.name, c.key)
    ELSE IF dialogOf(c.ctl) = "passphrase" THEN LoadCall(c.id, c.passphrase)
    ELSE RemoveCall(c.id)

\* A callback without the early return on !ok: the manager call is issued
\* whichever control was clicked.
HandlerCallbackAlways ==
    /\ pc = "callback"
    /\ calls' = Append(calls, flowCall(cur))
    /\ IF disp = <<>>
       THEN pc' = "idle" /\ cur' = NoCur /\ disp' = <<>>
       ELSE pc' = "clear" /\ cur' = Enter(cur.ctl, Head(disp)) /\ disp' = Tail(disp)
    /\ delivered' = (delivered \cup {cur.serial}) \cap InUse(onclick, cur', disp')
    /\ UNCHANGED <<hostVars, mgrVars, viewVars, errorText, inputVars, onclick,
                   open, flows, aloneVars>>

\* The handler invokes the callback of the flow: nothing when the user
\* dismissed the dialog, the manager call otherwise.  Then the next listener
\* of the clicked control runs, if there is one.
HandlerCallback ==
    /\ pc = "callback"
    /\ calls' = IF isOk(cur.ctl) THEN Append(calls, flowCall(cur)) ELSE calls
    /\ IF disp = <<>>
       THEN pc' = "idle" /\ cur' = NoCur /\ disp' = <<>>
       ELSE pc' = "clear" /\ cur' = Enter(cur.ctl, Head(disp)) /\ disp' = Tail(disp)
    /\ delivered' = (delivered \cup {cur.serial}) \cap InUse(onclick, cur', disp')
    /\ UNCHANGED <<hostVars, mgrVars, viewVars, errorText, inputVars, onclick,
                   open, flows, aloneVars>>

\* ------------------------------------------------------ manager callbacks

Errors == {nil, ErrEmptyName, ErrPassphrase, ErrNoKey, ErrNotConfigured,
           ErrNotLoaded, ErrUnavailable}

\* The callback of Manager.Add without the updateKeys after setError(nil).
AddCallbackNoRefresh(i, e) ==
    /\ pc = "idle"
    /\ calls[i].op = "Add"
    /\ e \in mgrAddErrors(calls[i].name, calls[i].key)
    /\ calls' = RemoveAt(calls, i)
    /\ IF e # nil
       THEN /\ errorText' = setError("failed to add key: " \o e)
            /\ UNCHANGED mgrVars
       ELSE /\ configured' = mgrAdd(calls[i].name, calls[i].key)
            /\ nextID' = nextID + 1
            /\ errorText' = setError(nil)
            /\ UNCHANGED loaded
    /\ UNCHANGED <<hostVars, viewVars, inputVars, onclick, open, runVars,
                   openingVars, aloneVars>>

\* The callback of Manager.Add with a setError that appends the new text
\* without removing what the error slot held.
AddCallbackKeepShown(i, e) ==
    /\ pc = "idle"
    /\ calls[i].op = "Add"
    /\ e \in mgrAddErrors(calls[i].name, calls[i].key)
    /\ IF e # nil
       THEN /\ errorText' = errorText \o setError("failed to add key: " \o e)
            /\ calls' = RemoveAt(calls, i)
            /\ UNCHANGED mgrVars
       ELSE /\ configured' = mgrAdd(calls[i].name, calls[i].key)
            /\ nextID' = nextID + 1
            /\ errorText' = errorText \o setError(nil)
            /\ calls' = updateKeys(RemoveAt(calls, i))
            /\ UNCHANGED loaded
    /\ UNCHANGED <<hostVars, viewVars, inputVars, onclick, open, runVars,
                   openingVars, aloneVars>>

\* The callback UI.add hands to Manager.Add, run with e.
AddCallback(i, e) ==
    /\ pc = "idle"
    /\ calls[i].op = "Add"
    /\ e \in mgrAddErrors(calls[i].name, calls[i].key)
    /\ IF e # nil
       THEN /\ errorText' = setError("failed to add key: " \o e)
            /\ calls' = RemoveAt(calls, i)
            /\ UNCHANGED mgrVars
       ELSE /\ configured' = mgrAdd(calls[i].name, calls[i].key)
            /\ nextID' = nextID + 1
            /\ errorText' = setError(nil)
            /\ calls' = updateKeys(RemoveAt(calls, i))
            /\ UNCHANGED loaded
    /\ UNCHANGED <<hostVars, viewVars, inputVars, onclick, open, runVars,
                   openingVars, aloneVars>>

\* The callback of Manager.Load without the return after setError(err).
LoadCallbackNoReturn(i, e) ==
    /\ pc = "idle"
    /\ calls[i].op = "Load"
    /\ e \in mgrLoadErrors(calls[i].id, calls[i].passphrase)
    /\ loaded' = IF e # nil THEN loaded ELSE mgrLoad(calls[i].id)
    /\ errorText' = setError(nil)
    /\ calls' = updateKeys(RemoveAt(calls, i))
    /\ UNCHANGED <<configured, nextID>>
    /\ UNCHANGED <<hostVars, viewVars, inputVars, onclick, open, runVars,
                   openingVars, aloneVars>>

\* The callback UI.load hands to Manager.Load, run with e.
LoadCallback(i, e) ==
    /\ pc = "idle"
    /\ calls[i].op = "Load"
    /\ e \in mgrLoadErrors(calls[i].id, calls[i].passphrase)
    /\ IF e # nil
       THEN /\ errorText' = setError("failed to load key: " \o e)
            /\ calls' = RemoveAt(calls, i)
            /\ UNCHANGED mgrVars
       ELSE /\ loaded' = mgrLoad(calls[i].id)
            /\ errorText' = setError(nil)
            /\ calls' = updateKeys(RemoveAt(calls, i))
            /\ UNCHANGED <<configured, nextID>>
    /\ UNCHANGED <<hostVars, viewVars, inputVars, onclick, open, runVars,
                   openingVars, aloneVars>>

\* The callback UI.unload hands to Manager.Unload, run with e.
UnloadCallback(i, e) ==
    /\ pc = "idle"
    /\ calls[i].op = "Unload"
    /\ e \in mgrUnloadErrors(calls[i].lkey)
    /\ IF e # nil
       THEN /\ errorText' = setError("failed to unload key: " \o e)
            /\ calls' = RemoveAt(calls, i)
            /\ UNCHANGED mgrVars
       ELSE /\ loaded' = mgrUnload(calls[i].lkey)
            /\ errorText' = setError(nil)
            /\ calls' = updateKeys(RemoveAt(calls, i))
            /\ UNCHANGED <<configured, nextID>>
    /\ UNCHANGED <<hostVars, viewVars, inputVars, onclick, open, runVars,
                   openingVars, aloneVars>>

\* A callback of Manager.Remove that lets the error escape: the page stops.
RemoveCallbackThrows(i, e) ==
    /\ calls[i].op = "Remove"
    /\ e \in mgrRemoveErrors(calls[i].id)
    /\ IF e # nil
       THEN /\ pc = "idle"
            /\ pc' = "fatal"
            /\ calls' = RemoveAt(calls, i)
            /\ UNCHANGED <<mgrVars, errorText, cur, disp>>
       ELSE /\ pc = "idle"
            /\ configured' = mgrRemove(calls[i].id)
            /\ errorText' = setError(nil)
            /\ calls' = updateKeys(RemoveAt(calls, i))
            /\ UNCHANGED <<loaded, nextID, runVars>>
    /\ UNCHANGED <<hostVars, viewVars, inputVars, onclick, open,
                   openingVars, aloneVars>>

\* The callback UI.remove hands to Manager.Remove, run with e.
RemoveCallback(i, e) ==
    /\ pc = "idle"
    /\ calls[i].op = "Remove"
    /\ e \in mgrRemoveErrors(calls[i].id)
    /\ IF e # nil
       THEN /\ errorText' = setError("failed to remove key: " \o e)
            /\ calls' = RemoveAt(calls, i)
            /\ UNCHANGED mgrVars
       ELSE /\ configured' = mgrRemove(calls[i].id)
            /\ errorText' = setError(nil)
            /\ calls' = updateKeys(RemoveAt(calls, i))
            /\ UNCHANGED <<loaded, nextID>>
    /\ UNCHANGED <<hostVars, viewVars, inputVars, onclick, open, runVars,
                   openingVars, aloneVars>>

\* A callback of Manager.Configured without the return after setError(err):
\* Manager.Loaded is queried all the same.
ConfiguredCallbackNoReturn(i, e) ==
    /\ pc = "idle"
    /\ calls[i].op = "Configured"
    /\ e \in mgrQueryErrors
    /\ errorText' = IF e # nil
                    THEN setError("failed to get configured keys: " \o e)
                    ELSE errorText
    /\ calls' = Append(RemoveAt(calls, i), LoadedCall(mgrConfigured))
    /\ UNCHANGED <<hostVars, mgrVars, viewVars, inputVars, onclick, open,
                   runVars, openingVars, aloneVars>>

\* The callback updateKeys hands to Manager.Configured, run with e.
ConfiguredCallback(i, e) ==
    /\ pc = "idle"
    /\ calls[i].op = "Configured"
    /\ e \in mgrQueryErrors
    /\ IF e # nil
       THEN /\ errorText' = setError("failed to get configured keys: " \o e)
            /\ calls' = RemoveAt(calls, i)
       ELSE /\ calls' = Append(RemoveAt(calls, i), LoadedCall(mgrConfigured))
            /\ UNCHANGED errorText
    /\ UNCHANGED <<hostVars, mgrVars, viewVars, inputVars, onclick, open,
                   runVars, openingVars, aloneVars>>

\* The callback updateKeys hands to Manager.Loaded, run with e.
LoadedCallback(i, e) ==
    /\ pc = "idle"
    /\ calls[i].op = "Loaded"
    /\ e \in mgrQueryErrors
    /\ calls' = RemoveAt(calls, i)
    /\ IF e # nil
       THEN /\ errorText' = setError("failed to get loaded keys: " \o e)
            /\ UNCHANGED viewVars
       ELSE /\ errorText' = setError(nil)
            /\ keys' = mergeKeys(calls[i].configured, mgrLoaded)
            /\ rows' = updateDisplayedKeys(keys')
    /\ UNCHANGED <<hostVars, mgrVars, inputVars, onclick, open, runVars,
                   openingVars, aloneVars>>

Next ==
    \/ DOMContentLoaded
    \/ \E v \in Names : SetAddName(v)
    \/ \E v \in PrivateKeys : SetAddKey(v)
    \/ \E v \in Passphrases : SetPassphrase(v)
    \/ ClickAdd
    \/ \E i \in DOMAIN rows : ClickLoad(i)
    \/ \E i \in DOMAIN rows : ClickUnload(i)
    \/ \E i \in DOMAIN rows : ClickRemove(i)
    \/ \E c \in Controls : ClickControl(c)
    \/ HandlerClear
    \/ HandlerDeregister
    \/ HandlerClose
    \/ HandlerCallback
    \/ \E i \in DOMAIN calls, e \in Errors : AddCallback(i, e)
    \/ \E i \in DOMAIN calls, e \in Errors : LoadCallback(i, e)
    \/ \E i \in DOMAIN calls, e \in Errors : UnloadCallback(i, e)
    \/ \E i \in DOMAIN calls, e \in Errors : RemoveCallback(i, e)
    \/ \E i \in DOMAIN calls, e \in Errors : ConfiguredCallback(i, e)
    \/ \E i \in DOMAIN calls, e \in Errors : LoadedCallback(i, e)

Spec == Init /\ [][Next]_vars

\* The same page with a manager whose Configured and Loaded queries never
\* fail.  The mutating calls may still fail, and callbacks still run in any
\* order.
QueriesSucceedNext ==
    \/ DOMContentLoaded
    \/ \E v \in Names : SetAddName(v)
    \/ \E v \in PrivateKeys : SetAddKey(v)
    \/ \E v \in Passphrases : SetPassphrase(v)
    \/ ClickAdd
    \/ \E i \in DOMAIN rows : ClickLoad(i)
    \/ \E i \in DOMAIN rows : ClickUnload(i)
    \/ \E i \in DOMAIN rows : ClickRemove(i)
    \/ \E c \in Controls : ClickControl(c)
    \/ HandlerClear
    \/ HandlerDeregister
    \/ HandlerClose
    \/ HandlerCallback
    \/ \E i \in DOMAIN calls, e \in Errors : AddCallback(i, e)
    \/ \E i \in DOMAIN calls, e \in Errors : LoadCallback(i, e)
    \/ \E i \in DOMAIN calls, e \in Errors : UnloadCallback(i, e)
    \/ \E i \in DOMAIN calls, e \in Errors : RemoveCallback(i, e)
    \/ \E i \in DOMAIN calls : ConfiguredCallback(i, nil)
    \/ \E i \in DOMAIN calls : LoadedCallback(i, nil)

QueriesSucceedSpec == Init /\ [][QueriesSucceedNext]_vars

\* The page once the refresh of DOMContentLoaded has completed, with no key
\* configured or loaded: from here on every refresh is one that a successful
\* flow has started.
SettledInit ==
    /\ degraded \in BOOLEAN
    /\ readyState = "complete"
    /\ configured = <<>>
    /\ loaded = <<>>
    /\ nextID = 1
    /\ calls = <<>>
    /\ keys = <<>>
    /\ rows = <<>>
    /\ errorText = <<>>
    /\ addName = <<>>
    /\ addKey = ""
    /\ passphraseInput = ""
    /\ removeName = <<>>
    /\ onclick = [c \in Controls |-> <<>>]
    /\ open = [d \in Dialogs |-> FALSE]
    /\ pc = "idle"
    /\ cur = NoCur
    /\ disp = <<>>
    /\ flows = 0
    /\ delivered = {}
    /\ mpc = "off"
    /\ argConfigured = <<>>
    /\ argLoaded = <<>>
    /\ result = <<>>
    /\ dpc = "off"
    /\ simOnClose = "undefined"
    /\ closeListeners = 0
    /\ dialogOpen = FALSE
    /\ closePending = 0
    /\ closes = 0
    /\ invoked = 0
    /\ store = <<>>
    /\ sops = <<>>
    /\ regs = <<>>
    /\ inCall = 0
    /\ fired = FALSE
    /\ epc = "off"
    /\ expArgs = <<>>
    /\ cells = <<>>
    /\ expTarget = <<>>
    /\ single = <<>>

SettledNext ==
    \/ \E v \in Names : SetAddName(v)
    \/ \E v \in PrivateKeys : SetAddKey(v)
    \/ \E v \in Passphrases : SetPassphrase(v)
    \/ ClickAdd
    \/ \E i \in DOMAIN rows : ClickLoad(i)
    \/ \E i \in DOMAIN rows : ClickUnload(i)
    \/ \E i \in DOMAIN rows : ClickRemove(i)
    \/ \E c \in Controls : ClickControl(c)
    \/ HandlerClear
    \/ HandlerDeregister
    \/ HandlerClose
    \/ HandlerCallback
    \/ \E i \in DOMAIN calls, e \in Errors : AddCallback(i, e)
    \/ \E i \in DOMAIN calls, e \in Errors : LoadCallback(i, e)
    \/ \E i \in DOMAIN calls, e \in Errors : UnloadCallback(i, e)
    \/ \E i \in DOMAIN calls, e \in Errors : RemoveCallback(i, e)
    \/ \E i \in DOMAIN calls, e \in Errors : ConfiguredCallback(i, e)
    \/ \E i \in DOMAIN calls, e \in Errors : LoadedCallback(i, e)

SettledSpec == SettledInit /\ [][SettledNext]_vars

\* ---------------------------------------------------- mergeKeys, called alone

\* Byte strings "1", "2" (ids) and "a", "b" (names).
MergeIDs == {<<49>>, <<50>>}
MergeNames == {<<97>>, <<98>>}
MergeTypes == {"ssh-rsa", "ssh-ed25519"}
MergeBlobs == {<<1>>, <<2, 3>>}

\* keys.ConfiguredKey values and keys.LoadedKey values (ID is what l.ID()
\* returns: InvalidID when the key was not loaded by this extension).
ConfiguredKeys == [ID : MergeIDs, Name : MergeNames, Encrypted : BOOLEAN]
LoadedKeys == [Type : MergeTypes, Blob : MergeBlobs, ID : MergeIDs \cup {InvalidID}]

SeqsUpTo(S, n) == UNION {[1..k -> S] : k \in 0..n}

UniqueIDs(c) ==
    \A i, j \in DOMAIN c : c[i].ID = c[j].ID => i = j

\* The configured lists the manager can return: ids are unique.
ConfiguredLists == {c \in SeqsUpTo(ConfiguredKeys, MaxConfigured) : UniqueIDs(c)}
LoadedLists == SeqsUpTo(LoadedKeys, MaxLoaded)

\* The page is left as New built it, in a browser.
MergeInit ==
    /\ mpc = "input"
    /\ argConfigured \in ConfiguredLists
    /\ argLoaded \in LoadedLists
    /\ result = <<>>
    /\ degraded = FALSE
    /\ readyState = "loading"
    /\ configured = <<>>
    /\ loaded = <<>>
    /\ nextID = 1
    /\ calls = <<>>
    /\ keys = <<>>
    /\ rows = <<>>
    /\ errorText = <<>>
    /\ addName = <<>>
    /\ addKey = ""
    /\ passphraseInput = ""
    /\ removeName = <<>>
    /\ onclick = [c \in Controls |-> <<>>]
    /\ open = [d \in Dialogs |-> FALSE]
    /\ pc = "idle"
    /\ cur = NoCur
    /\ disp = <<>>
    /\ flows = 0
    /\ delivered = {}
    /\ dpc = "off"
    /\ simOnClose = "undefined"
    /\ closeListeners = 0
    /\ dialogOpen = FALSE
    /\ closePending = 0
    /\ closes = 0
    /\ invoked = 0
    /\ store = <<>>
    /\ sops = <<>>
    /\ regs = <<>>
    /\ inCall = 0
    /\ fired = FALSE
    /\ epc = "off"
    /\ expArgs = <<>>
    /\ cells = <<>>
    /\ expTarget = <<>>
    /\ single = <<>>

\* result := mergeKeys(configured, loaded)
MergeCall ==
    /\ mpc = "input"
    /\ result' = mergeKeys(argConfigured, argLoaded)
    /\ mpc' = "merged"
    /\ UNCHANGED <<argConfigured, argLoaded, besideMerge>>

MergeNext == MergeCall

MergeSpec == MergeInit /\ [][MergeNext]_vars


\* ------------------------------------------------ dom.Dialog, used alone

\* NewDialog on a page left as New built it: simOnClose is the zero js.Func,
\* which is undefined.  The host has close and showModal, or (jsdom) neither.
DialogInit ==
    /\ dpc = "live"
    /\ simOnClose = "undefined"
    /\ closeListeners = 0
    /\ dialogOpen = FALSE
    /\ closePending = 0
    /\ closes = 0
    /\ invoked = 0
    /\ store = <<>>
    /\ sops = <<>>
    /\ regs = <<>>
    /\ inCall = 0
    /\ fired = FALSE
    /\ epc = "off"
    /\ expArgs = <<>>
    /\ cells = <<>>
    /\ expTarget = <<>>
    /\ single = <<>>
    /\ degraded \in BOOLEAN
    /\ readyState = "loading"
    /\ configured = <<>>
    /\ loaded = <<>>
    /\ nextID = 1
    /\ calls = <<>>
    /\ keys = <<>>
    /\ rows = <<>>
    /\ errorText = <<>>
    /\ addName = <<>>
    /\ addKey = ""
    /\ passphraseInput = ""
    /\ removeName = <<>>
    /\ onclick = [c \in Controls |-> <<>>]
    /\ open = [d \in Dialogs |-> FALSE]
    /\ pc = "idle"
    /\ cur = NoCur
    /\ disp = <<>>
    /\ flows = 0
    /\ delivered = {}
    /\ mpc = "off"
    /\ argConfigured = <<>>
    /\ argLoaded = <<>>
    /\ result = <<>>

\* Dialog.ShowModal: showModal on the element, or a log line.
DialogShowModal ==
    /\ dpc = "live"
    /\ ~dialogOpen
    /\ dialogOpen' = ~degraded
    /\ UNCHANGED <<dpc, simOnClose, closeListeners, closePending, closes,
                   invoked, besideDialog>>

\* Dialog.OnClose: without close on the element the callback is stored in
\* simOnClose, and a second one panics; otherwise a 'close' listener is added.
DialogOnClose ==
    /\ dpc = "live"
    /\ IF degraded
       THEN /\ IF simOnClose # "undefined"
               THEN dpc' = "panic" /\ UNCHANGED simOnClose
               ELSE simOnClose' = "set" /\ UNCHANGED dpc
            /\ UNCHANGED closeListeners
       ELSE /\ closeListeners < MaxListeners
            /\ closeListeners' = closeListeners + 1
            /\ UNCHANGED <<dpc, simOnClose>>
    /\ UNCHANGED <<dialogOpen, closePending, closes, invoked, besideDialog>>

\* The CleanupFunc OnClose returned: simOnClose.Release, which releases the
\* function and leaves the field as it is, or the removal of the listener.
DialogCleanup ==
    /\ dpc = "live"
    /\ IF degraded
       THEN /\ simOnClose = "set"
            /\ simOnClose' = "released"
            /\ UNCHANGED closeListeners
       ELSE /\ closeListeners > 0
            /\ closeListeners' = closeListeners - 1
            /\ UNCHANGED simOnClose
    /\ UNCHANGED <<dpc, dialogOpen, closePending, closes, invoked, besideDialog>>

\* A Close that only logs when the element has no close.
DialogCloseLogOnly ==
    /\ dpc = "live"
    /\ closes < MaxCloses
    /\ closes' = closes + 1
    /\ IF degraded
       THEN UNCHANGED <<invoked, dialogOpen, closePending>>
       ELSE /\ dialogOpen' = FALSE
            /\ closePending' = IF dialogOpen THEN closePending + 1
                                ELSE closePending
            /\ UNCHANGED invoked
    /\ UNCHANGED <<dpc, simOnClose, closeListeners, besideDialog>>

\* Dialog.Close: without close on the element, simOnClose is invoked unless
\* it is undefined (invoking a released function runs no callback);
\* otherwise close on the element, which queues a 'close' event when the
\* element was open.
DialogClose ==
    /\ dpc = "live"
    /\ closes < MaxCloses
    /\ closes' = closes + 1
    /\ IF degraded
       THEN /\ invoked' = IF simOnClose = "set" THEN invoked + 1 ELSE invoked
            /\ UNCHANGED <<dialogOpen, closePending>>
       ELSE /\ dialogOpen' = FALSE
            /\ closePending' = IF dialogOpen THEN closePending + 1
                                ELSE closePending
            /\ UNCHANGED invoked
    /\ UNCHANGED <<dpc, simOnClose, closeListeners, besideDialog>>

\* The host delivers a queued 'close' event to the listeners of the element.
DialogCloseEvent ==
    /\ dpc = "live"
    /\ closePending > 0
    /\ closePending' = closePending - 1
    /\ invoked' = invoked + closeListeners
    /\ UNCHANGED <<dpc, simOnClose, closeListeners, dialogOpen, closes, besideDialog>>

DialogNext ==
    \/ DialogShowModal
    \/ DialogOnClose
    \/ DialogCleanup
    \/ DialogClose
    \/ DialogCloseEvent

DialogSpec == DialogInit /\ [][DialogNext]_vars

\* ---------------------------------------------------- UI.remove, run alone

\* The id and the name the test "remove key fails" hands to UI.remove.
BogusID == <<120>>
BogusName == <<120>>
RemoveIDs == {newID(n) : n \in 1..MaxIDs} \cup {BogusID}

\* The keys the manager can hold after MaxIDs additions, and its lists of
\* them: ids are handed out in increasing order.
StoredKeys ==
    {[ID |-> newID(n), Name |-> <<97>>, Encrypted |-> keyEncrypted(p),
      Private |-> p] : n \in 1..MaxIDs, p \in {"plain", "enc"}}
StoredLists ==
    {c \in SeqsUpTo(StoredKeys, MaxConfigured) :
        \A i, j \in DOMAIN c : i < j => StrLess(c[i].ID, c[j].ID)}

\* What Manager.Configured returns when the manager holds the list c.
configuredOf(c) ==
    [i \in DOMAIN c |->
        [ID |-> c[i].ID, Name |-> c[i].Name, Encrypted |-> c[i].Encrypted]]

\* The agent holds no key, or one of the keys of c, loaded by the manager.
LoadsOf(c) ==
    {<<>>} \cup {<<[Type |-> keyType(c[i].Private),
                    Blob |-> keyBlob(c[i].Private), ID |-> c[i].ID]>> :
                 i \in DOMAIN c}

\* The page some time after New: the manager holds up to MaxConfigured keys,
\* the display was drawn from the manager's answers, and since then one key
\* may have been removed without the display having been refreshed yet (gone
\* is its id; BogusID when none was).  An earlier failure may still be shown.
RemoveInit ==
    /\ \E c \in StoredLists, gone \in RemoveIDs :
          /\ configured = mgrRemoveFrom(c, gone)
          /\ loaded \in LoadsOf(c)
          /\ keys = mergeKeys(configuredOf(c), loaded)
    /\ rows = updateDisplayedKeys(keys)
    /\ errorText \in {<<>>, <<"failed to remove key: " \o ErrUnavailable>>}
    /\ nextID = MaxIDs + 1
    /\ degraded \in BOOLEAN
    /\ readyState = "complete"
    /\ calls = <<>>
    /\ addName = <<>>
    /\ addKey = ""
    /\ passphraseInput = ""
    /\ removeName = <<>>
    /\ onclick = [c \in Controls |-> <<>>]
    /\ open = [d \in Dialogs |-> FALSE]
    /\ pc = "idle"
    /\ cur = NoCur
    /\ disp = <<>>
    /\ flows = 0
    /\ delivered = {}
    /\ mpc = "off"
    /\ argConfigured = <<>>
    /\ argLoaded = <<>>
    /\ result = <<>>
    /\ dpc = "off"
    /\ simOnClose = "undefined"
    /\ closeListeners = 0
    /\ dialogOpen = FALSE
    /\ closePending = 0
    /\ closes = 0
    /\ invoked = 0
    /\ store = <<>>
    /\ sops = <<>>
    /\ regs = <<>>
    /\ inCall = 0
    /\ fired = FALSE
    /\ epc = "off"
    /\ expArgs = <<>>
    /\ cells = <<>>
    /\ expTarget = <<>>
    /\ single = <<>>

\* UI.remove whose callback of Manager.Remove leaves the error slot as it is.
removeKeepError(id, name, e) ==
    /\ flows = 0
    /\ flows' = 1
    /\ e \in mgrRemoveErrors(id)
    /\ removeName' = <<>>
    /\ IF e # nil
       THEN /\ errorText' = setError("failed to remove key: " \o e)
            /\ UNCHANGED <<mgrVars, viewVars>>
       ELSE /\ configured' = mgrRemove(id)
            /\ UNCHANGED <<loaded, nextID>>
            /\ UNCHANGED errorText
            /\ keys' = mergeKeys(mgrConfigured', mgrLoaded')
            /\ rows' = updateDisplayedKeys(keys')
    /\ UNCHANGED <<hostVars, calls, addName, addKey, passphraseInput, onclick,
                   open, runVars, delivered, aloneVars>>

\* UI.remove(id, name) as the test runs it, with no other step in between:
\* the dialog is shown, Yes is clicked (the handler empties removeName,
\* deregisters and closes), Manager.Remove answers e, and on success the
\* error slot is emptied and updateKeys runs to its end, both queries
\* succeeding.
remove(id, name, e) ==
    /\ flows = 0
    /\ flows' = 1
    /\ e \in mgrRemoveErrors(id)
    /\ removeName' = <<>>
    /\ IF e # nil
       THEN /\ errorText' = setError("failed to remove key: " \o e)
            /\ UNCHANGED <<mgrVars, viewVars>>
       ELSE /\ configured' = mgrRemove(id)
            /\ UNCHANGED <<loaded, nextID>>
            /\ errorText' = setError(nil)
            /\ keys' = mergeKeys(mgrConfigured', mgrLoaded')
            /\ rows' = updateDisplayedKeys(keys')
    /\ UNCHANGED <<hostVars, calls, addName, addKey, passphraseInput, onclick,
                   open, runVars, delivered, aloneVars>>

RemoveNext == \E id \in RemoveIDs, e \in Errors : remove(id, BogusName, e)

RemoveSpec == RemoveInit /\ [][RemoveNext]_vars

\* ------------------------------------------- the Unload control, used alone

\* Bytes of a public key blob: they cover the first, a middle and the last
\* two characters of the base64 alphabet.
BlobBytes == {0, 105, 251, 255}
UnloadBlobs == UNION {[1..n -> BlobBytes] : n \in 1..MaxBlobLen}

\* Texts that base64.StdEncoding.DecodeString rejects: "A", "AQ=", "AQI",
\* "A!==", "=AAA", "AQ=A" and "AQ==AQ==".
BadBlobs ==
    {<<65>>, <<65, 81, 61>>, <<65, 81, 73>>, <<65, 33, 61, 61>>,
     <<61, 65, 65, 65>>, <<65, 81, 61, 65>>,
     <<65, 81, 61, 61, 65, 81, 61, 61>>}

\* The page showing one loaded key of the configured key "1".  Either the
\* agent holds the key and the display was drawn by mergeKeys from the
\* manager's answers, or the entry is one put together by hand whose Blob is
\* no base64 text (mergeKeys produces no such entry).
UnloadInit ==
    /\ configured = <<[ID |-> newID(1), Name |-> <<97>>, Encrypted |-> FALSE,
                       Private |-> "plain"]>>
    /\ \E t \in MergeTypes :
          \/ \E b \in UnloadBlobs :
                /\ loaded = <<[Type |-> t, Blob |-> b, ID |-> newID(1)]>>
                /\ keys = mergeKeys(mgrConfigured, mgrLoaded)
          \/ \E s \in BadBlobs :
                /\ loaded = <<>>
                /\ keys = <<[ID |-> newID(1), Loaded |-> TRUE,
                             Encrypted |-> FALSE, Name |-> <<97>>,
                             Type |-> t, Blob |-> s]>>
    /\ rows = updateDisplayedKeys(keys)
    /\ errorText = <<>>
    /\ nextID = 2
    /\ degraded \in BOOLEAN
    /\ readyState = "complete"
    /\ calls = <<>>
    /\ addName = <<>>
    /\ addKey = ""
    /\ passphraseInput = ""
    /\ removeName = <<>>
    /\ onclick = [c \in Controls |-> <<>>]
    /\ open = [d \in Dialogs |-> FALSE]
    /\ pc = "idle"
    /\ cur = NoCur
    /\ disp = <<>>
    /\ flows = 0
    /\ delivered = {}
    /\ mpc = "off"
    /\ argConfigured = <<>>
    /\ argLoaded = <<>>
    /\ result = <<>>
    /\ dpc = "off"
    /\ simOnClose = "undefined"
    /\ closeListeners = 0
    /\ dialogOpen = FALSE
    /\ closePending = 0
    /\ closes = 0
    /\ invoked = 0
    /\ store = <<>>
    /\ sops = <<>>
    /\ regs = <<>>
    /\ inCall = 0
    /\ fired = FALSE
    /\ epc = "off"
    /\ expArgs = <<>>
    /\ cells = <<>>
    /\ expTarget = <<>>
    /\ single = <<>>

\* Clicks on the Unload control, and the manager's answers to what they start.
UnloadNext ==
    \/ \E i \in DOMAIN rows : ClickUnload(i)
    \/ \E i \in DOMAIN calls, e \in Errors : UnloadCallback(i, e)
    \/ \E i \in DOMAIN calls, e \in Errors : ConfiguredCallback(i, e)
    \/ \E i \in DOMAIN calls, e \in Errors : LoadedCallback(i, e)

UnloadSpec == UnloadInit /\ [][UnloadNext]_vars

\* ---------------------------------------------- chrome.Storage, used alone

StoreKeys == {"k1", "k2"}
StoreValues == {"v1", "v2"}

\* A Go map[string]js.Value: a function on a finite set of keys.
EmptyMap == [k \in {} |-> "v1"]
Maps == UNION {[K -> StoreValues] : K \in SUBSET StoreKeys}

\* A Go []string of keys.
KeyLists == SeqsUpTo(StoreKeys, 2)

\* JavaScript values: the type syscall/js reports, and for an object its own
\* properties in order, each a name and a value.
JSUndefined == [type |-> "undefined", props |-> <<>>]
JSNull == [type |-> "null", props |-> <<>>]
JSObject(props) == [type |-> "object", props |-> props]
nameOf(prop) == prop[1]
valueOf(prop) == prop[2]

\* Object.keys(val) and val.Get(k)
objectKeys(val) == [i \in DOMAIN val.props |-> nameOf(val.props[i])]
objectGet(val, k) ==
    valueOf(val.props[CHOOSE i \in DOMAIN val.props : nameOf(val.props[i]) = k])

\* The orders in which a range over a map with the keys K can visit them.
Orders(K) ==
    {o \in [1..Cardinality(K) -> K] : \A i, j \in DOMAIN o : o[i] = o[j] => i = j}

\* A dataToValue that sets only the first pair the range visits.
dataToValueFirstOnly(data, o) ==
    JSObject([i \in DOMAIN o \cap {1} |-> <<o[i], data[o[i]]>>])

\* dataToValue, when the range over data visits the keys in the order o.
dataToValue(data, o) ==
    JSObject([i \in DOMAIN o |-> <<o[i], data[o[i]]>>])

\* valueToData: the map, whether it is the nil map, and the error.
valueToData(val) ==
    IF val.type # "object"
    THEN [data |-> EmptyMap, isNil |-> TRUE,
          err |-> "failed to read data: got unexpected type " \o val.type]
    ELSE LET ks == objectKeys(val)
         IN  [data |-> [k \in {ks[i] : i \in DOMAIN ks} |-> objectGet(val, k)],
              isNil |-> FALSE,
              err |-> nil]

\* vert.ValueOf(keys).JSValue(): the JavaScript array of the keys.
IndexName(i) == IF i = 1 THEN "0" ELSE IF i = 2 THEN "1" ELSE "2"
keysToValue(ks) == JSObject([i \in DOMAIN ks |-> <<IndexName(i), ks[i]>>])

\* ExpandArgs, first loop: *(target[i]) = args[i] while i is below both
\* lengths.  mem holds the js.Value variables, target the variables pointed to.
RECURSIVE assignArgs(_, _, _, _)
assignArgs(mem, args, target, i) ==
    IF i <= Len(args) /\ i <= Len(target)
    THEN assignArgs([mem EXCEPT ![target[i]] = args[i]], args, target, i + 1)
    ELSE mem

\* ExpandArgs, second loop: *(target[i]) = js.Undefined() from len(args) on.
RECURSIVE undefineRest(_, _, _)
undefineRest(mem, target, i) ==
    IF i <= Len(target)
    THEN undefineRest([mem EXCEPT ![target[i]] = JSUndefined], target, i + 1)
    ELSE mem

\* ExpandArgs without its second loop.
ExpandArgsAssignOnly(mem, args, target) == assignArgs(mem, args, target, 1)

\* ExpandArgs(args, target...): the variables after the call.
ExpandArgs(mem, args, target) ==
    undefineRest(assignArgs(mem, args, target, 1), target, Len(args) + 1)

\* SingleArg: var val js.Value (the zero Value is undefined);
\* ExpandArgs(args, &val); return val.
singleArg(args) == ExpandArgs(<<JSUndefined>>, args, <<1>>)[1]

\* The storage area of Chrome: set stores every property of the object given,
\* get(null) answers with an object of all items, remove deletes the items
\* named in the array and ignores the names it does not hold.
chromeSet(st, val) ==
    LET ks == objectKeys(val)
        K == {ks[i] : i \in DOMAIN ks}
    IN  [k \in DOMAIN st \cup K |-> IF k \in K THEN objectGet(val, k) ELSE st[k]]
chromeGet(st) ==
    LET o == CHOOSE o \in Orders(DOMAIN st) : TRUE
    IN  JSObject([i \in DOMAIN o |-> <<o[i], st[o[i]]>>])
chromeRemove(st, arr) ==
    [k \in DOMAIN st \ {valueOf(arr.props[i]) : i \in DOMAIN arr.props} |-> st[k]]

\* chrome.runtime.lastError as C.Error reports it: nil, or a message.
QuotaError == "QUOTA_BYTES quota exceeded"
LastErrors == {nil, QuotaError}

\* A call of Set, Get or Delete: the Go arguments, the value handed to Chrome,
\* the one-time function cb, how often callback was invoked, and what it
\* received last.
NewOp(op, data, ks, arg) ==
    [op |-> op, data |-> data, keys |-> ks, arg |-> arg, done |-> FALSE,
     cb |-> "live", invoked |-> 0, err |-> nil, got |-> EmptyMap,
     gotNil |-> TRUE]

\* The function Set hands to Chrome, called with lastError set to le.
setCallback(c, le, args) ==
    [c EXCEPT !.cb = "released",
              !.invoked = @ + 1,
              !.err = IF le # nil THEN "failed to set data: " \o le ELSE nil]

\* A function of Get that is never released.
getCallbackNoRelease(c, le, args) ==
    LET r == valueToData(singleArg(args))
    IN  [c EXCEPT !.invoked = @ + 1,
                  !.err = IF le # nil THEN "failed to get data: " \o le
                          ELSE IF r.err # nil
                               THEN "failed to parse data: " \o r.err
                               ELSE nil,
                  !.got = IF le # nil THEN EmptyMap ELSE r.data,
                  !.gotNil = IF le # nil THEN TRUE ELSE r.isNil]

\* The function Get hands to Chrome, called with args and lastError set to le.
getCallback(c, le, args) ==
    LET r == valueToData(singleArg(args))
    IN  [c EXCEPT !.cb = "released",
                  !.invoked = @ + 1,
                  !.err = IF le # nil THEN "failed to get data: " \o le
                          ELSE IF r.err # nil
                               THEN "failed to parse data: " \o r.err
                               ELSE nil,
                  !.got = IF le # nil THEN EmptyMap ELSE r.data,
                  !.gotNil = IF le # nil THEN TRUE ELSE r.isNil]

\* The function Delete hands to Chrome, called with lastError set to le.
deleteCallback(c, le, args) ==
    [c EXCEPT !.cb = "released",
              !.invoked = @ + 1,
              !.err = IF le # nil THEN "failed to delete data: " \o le ELSE nil]

\* Chrome calls the function of call c: a released function runs nothing.
invokeCb(c, le, args) ==
    IF c.cb = "released" THEN c
    ELSE IF c.op = "set" THEN setCallback(c, le, args)
    ELSE IF c.op = "get" THEN getCallback(c, le, args)
    ELSE deleteCallback(c, le, args)

\* A storage area with some items in it, and no call made yet.
StorageInit ==
    /\ store \in Maps
    /\ sops = <<>>
    /\ regs = <<>>
    /\ inCall = 0
    /\ fired = FALSE
    /\ epc = "off"
    /\ expArgs = <<>>
    /\ cells = <<>>
    /\ expTarget = <<>>
    /\ single = <<>>
    /\ degraded = FALSE
    /\ readyState = "loading"
    /\ configured = <<>>
    /\ loaded = <<>>
    /\ nextID = 1
    /\ calls = <<>>
    /\ keys = <<>>
    /\ rows = <<>>
    /\ errorText = <<>>
    /\ addName = <<>>
    /\ addKey = ""
    /\ passphraseInput = ""
    /\ removeName = <<>>
    /\ onclick = [c \in Controls |-> <<>>]
    /\ open = [d \in Dialogs |-> FALSE]
    /\ pc = "idle"
    /\ cur = NoCur
    /\ disp = <<>>
    /\ flows = 0
    /\ delivered = {}
    /\ mpc = "off"
    /\ argConfigured = <<>>
    /\ argLoaded = <<>>
    /\ result = <<>>
    /\ dpc = "off"
    /\ simOnClose = "undefined"
    /\ closeListeners = 0
    /\ dialogOpen = FALSE
    /\ closePending = 0
    /\ closes = 0
    /\ invoked = 0

\* Storage.Set(data, callback), the range over data visiting the keys in the
\* order o.
StorageSet(data, o) ==
    /\ Len(sops) < MaxOps
    /\ sops' = Append(sops, NewOp("set", data, <<>>, dataToValue(data, o)))
    /\ UNCHANGED <<store, besideStorage>>

\* Storage.Get(callback)
StorageGet ==
    /\ Len(sops) < MaxOps
    /\ sops' = Append(sops, NewOp("get", EmptyMap, <<>>, JSNull))
    /\ UNCHANGED <<store, besideStorage>>

\* A Delete that hands Chrome the first of the keys only.
StorageDeleteFirstOnly(ks) ==
    /\ Len(sops) < MaxOps
    /\ sops' = Append(sops, NewOp("remove", EmptyMap, ks,
                                  keysToValue(IF ks = <<>> THEN ks
                                              ELSE <<Head(ks)>>)))
    /\ UNCHANGED <<store, besideStorage>>

\* Storage.Delete(keys, callback)
StorageDelete(ks) ==
    /\ Len(sops) < MaxOps
    /\ sops' = Append(sops, NewOp("remove", EmptyMap, ks, keysToValue(ks)))
    /\ UNCHANGED <<store, besideStorage>>

\* Chrome completes call i and calls its function: with the outcome "ok" the
\* operation has taken effect and lastError is unset; with "error" it has
\* not and lastError is set; with "garbage" a get answers without lastError
\* and without an object.
ChromeComplete(i, outcome) ==
    /\ ~sops[i].done
    /\ outcome = "garbage" => sops[i].op = "get"
    /\ LET c == sops[i]
           le == IF outcome = "error" THEN QuotaError ELSE nil
           args == IF outcome = "ok" /\ c.op = "get" THEN <<chromeGet(store)>>
                   ELSE <<>>
       IN  /\ store' = IF outcome # "ok" THEN store
                       ELSE IF c.op = "set" THEN chromeSet(store, c.arg)
                       ELSE IF c.op = "remove" THEN chromeRemove(store, c.arg)
                       ELSE store
           /\ sops' = [sops EXCEPT ![i] = [invokeCb(c, le, args) EXCEPT !.done = TRUE]]
    /\ UNCHANGED besideStorage

Outcomes == {"ok", "error", "garbage"}

StorageNext ==
    \/ \E data \in Maps : \E o \in Orders(DOMAIN data) : StorageSet(data, o)
    \/ StorageGet
    \/ \E ks \in KeyLists : StorageDelete(ks)
    \/ \E i \in DOMAIN sops, outcome \in Outcomes : ChromeComplete(i, outcome)

StorageSpec == StorageInit /\ [][StorageNext]_vars

\* ------------------------------------------ OnDOMContentLoaded, used alone

ReadyStates == {"loading", "interactive", "complete"}

\* A document in any of its states; DOMContentLoaded is dispatched while the
\* document is interactive and has been once it is complete.
ReadyInit ==
    /\ regs = <<>>
    /\ inCall = 0
    /\ readyState \in ReadyStates
    /\ fired \in BOOLEAN
    /\ epc = "off"
    /\ expArgs = <<>>
    /\ cells = <<>>
    /\ expTarget = <<>>
    /\ single = <<>>
    /\ readyState = "loading" => ~fired
    /\ readyState = "complete" => fired
    /\ store = <<>>
    /\ sops = <<>>
    /\ degraded = FALSE
    /\ configured = <<>>
    /\ loaded = <<>>
    /\ nextID = 1
    /\ calls = <<>>
    /\ keys = <<>>
    /\ rows = <<>>
    /\ errorText = <<>>
    /\ addName = <<>>
    /\ addKey = ""
    /\ passphraseInput = ""
    /\ removeName = <<>>
    /\ onclick = [c \in Controls |-> <<>>]
    /\ open = [d \in Dialogs |-> FALSE]
    /\ pc = "idle"
    /\ cur = NoCur
    /\ disp = <<>>
    /\ flows = 0
    /\ delivered = {}
    /\ mpc = "off"
    /\ argConfigured = <<>>
    /\ argLoaded = <<>>
    /\ result = <<>>
    /\ dpc = "off"
    /\ simOnClose = "undefined"
    /\ closeListeners = 0
    /\ dialogOpen = FALSE
    /\ closePending = 0
    /\ closes = 0
    /\ invoked = 0

\* A registration: how it waits for its callback ("timeout": a zero timeout
\* is pending; "listener": a DOMContentLoaded listener is registered; "done":
\* the one-time function of the timeout has run; "removed": the listener was
\* removed), how often callback has run, whether it ran before
\* OnDOMContentLoaded returned, and whether the cleanup was called.
NewReg(wait, ran, sync) ==
    [wait |-> wait, ran |-> ran, sync |-> sync, cleaned |-> FALSE]

\* An OnDOMContentLoaded that invokes callback directly when the event has
\* already fired.
OnDOMContentLoadedDirect ==
    /\ inCall = 0
    /\ Len(regs) < MaxRegs
    /\ regs' = Append(regs, IF readyState # "loading"
                            THEN NewReg("done", 1, TRUE)
                            ELSE NewReg("listener", 0, FALSE))
    /\ inCall' = Len(regs) + 1
    /\ UNCHANGED <<readyState, fired, besideReady>>

\* OnDOMContentLoaded(callback), up to its return statement.
OnDOMContentLoaded ==
    /\ inCall = 0
    /\ Len(regs) < MaxRegs
    /\ regs' = Append(regs, IF readyState # "loading"
                            THEN NewReg("timeout", 0, FALSE)
                            ELSE NewReg("listener", 0, FALSE))
    /\ inCall' = Len(regs) + 1
    /\ UNCHANGED <<readyState, fired, besideReady>>

\* OnDOMContentLoaded returns.
OnDOMContentLoadedReturn ==
    /\ inCall # 0
    /\ inCall' = 0
    /\ UNCHANGED <<regs, readyState, fired, besideReady>>

\* The CleanupFunc of registration k: it removes the listener, or it is the
\* empty function returned beside a timeout.
ReadyCleanup(k) ==
    /\ inCall = 0
    /\ ~regs[k].cleaned
    /\ regs' = [regs EXCEPT ![k].cleaned = TRUE,
                            ![k].wait = IF @ = "listener" THEN "removed" ELSE @]
    /\ UNCHANGED <<inCall, readyState, fired, besideReady>>

\* The host runs the function of a pending timeout once no script is running:
\* the one-time function invokes callback.
TimeoutExpires(k) ==
    /\ inCall = 0
    /\ regs[k].wait = "timeout"
    /\ regs' = [regs EXCEPT ![k].wait = "done", ![k].ran = @ + 1]
    /\ UNCHANGED <<inCall, readyState, fired, besideReady>>

\* The document has been parsed.
DocumentInteractive ==
    /\ inCall = 0
    /\ readyState = "loading"
    /\ readyState' = "interactive"
    /\ UNCHANGED <<regs, inCall, fired, besideReady>>

\* The document dispatches DOMContentLoaded: every listener is invoked.
DocumentEvent ==
    /\ inCall = 0
    /\ readyState = "interactive"
    /\ ~fired
    /\ fired' = TRUE
    /\ regs' = [k \in DOMAIN regs |->
                   IF regs[k].wait = "listener"
                   THEN [regs[k] EXCEPT !.ran = @ + 1]
                   ELSE regs[k]]
    /\ UNCHANGED <<inCall, readyState, besideReady>>

\* The document and its resources have been loaded.
DocumentComplete ==
    /\ inCall = 0
    /\ readyState = "interactive"
    /\ fired
    /\ readyState' = "complete"
    /\ UNCHANGED <<regs, inCall, fired, besideReady>>

ReadyNext ==
    \/ OnDOMContentLoaded
    \/ OnDOMContentLoadedReturn
    \/ \E k \in DOMAIN regs : ReadyCleanup(k)
    \/ \E k \in DOMAIN regs : TimeoutExpires(k)
    \/ DocumentInteractive
    \/ DocumentEvent
    \/ DocumentComplete

ReadySpec == ReadyInit /\ [][ReadyNext]_vars

\* ------------------------------------- ExpandArgs and SingleArg, used alone

\* The values arguments and variables hold.
ArgValues == {JSUndefined, JSNull, JSObject(<<>>)}

\* A caller with up to MaxCells variables holding any values, a slice of up
\* to MaxArgs arguments and up to MaxTargets pointers to its variables.
ExpandInit ==
    /\ epc = "input"
    /\ expArgs \in UNION {[1..n -> ArgValues] : n \in 0..MaxArgs}
    /\ cells \in [1..MaxCells -> ArgValues]
    /\ expTarget \in UNION {[1..n -> 1..MaxCells] : n \in 0..MaxTargets}
    /\ single = <<>>
    /\ regs = <<>>
    /\ inCall = 0
    /\ fired = FALSE
    /\ store = <<>>
    /\ sops = <<>>
    /\ degraded = FALSE
    /\ readyState = "loading"
    /\ configured = <<>>
    /\ loaded = <<>>
    /\ nextID = 1
    /\ calls = <<>>
    /\ keys = <<>>
    /\ rows = <<>>
    /\ errorText = <<>>
    /\ addName = <<>>
    /\ addKey = ""
    /\ passphraseInput = ""
    /\ removeName = <<>>
    /\ onclick = [c \in Controls |-> <<>>]
    /\ open = [d \in Dialogs |-> FALSE]
    /\ pc = "idle"
    /\ cur = NoCur
    /\ disp = <<>>
    /\ flows = 0
    /\ delivered = {}
    /\ mpc = "off"
    /\ argConfigured = <<>>
    /\ argLoaded = <<>>
    /\ result = <<>>
    /\ dpc = "off"
    /\ simOnClose = "undefined"
    /\ closeListeners = 0
    /\ dialogOpen = FALSE
    /\ closePending = 0
    /\ closes = 0
    /\ invoked = 0

\* ExpandArgs(args, target...)
ExpandCall ==
    /\ epc = "input"
    /\ cells' = ExpandArgs(cells, expArgs, expTarget)
    /\ epc' = "expanded"
    /\ UNCHANGED <<expArgs, expTarget, single, besideExpand>>

\* val := SingleArg(args)
SingleCall ==
    /\ epc = "input"
    /\ single' = <<singleArg(expArgs)>>
    /\ epc' = "returned"
    /\ UNCHANGED <<expArgs, expTarget, cells, besideExpand>>

ExpandNext == ExpandCall \/ SingleCall

ExpandSpec == ExpandInit /\ [][ExpandNext]_vars

\* ------------------------------------------------- claims about mergeKeys

\* s <= t on Go strings, and (name, blob, id) <= (name, blob, id).
StrLeq(s, t) == s = t \/ StrLess(s, t)
TripleLeq(a, b) ==
    \/ StrLess(a.Name, b.Name)
    \/ a.Name = b.Name /\ StrLess(a.Blob, b.Blob)
    \/ a.Name = b.Name /\ a.Blob = b.Blob /\ StrLeq(a.ID, b.ID)

ConfiguredIDs == {argConfigured[i].ID : i \in DOMAIN argConfigured}
\* A loaded key matches a configured key when it derives that key's id.
MatchedIDs == {argLoaded[j].ID : j \in DOMAIN argLoaded} \cap ConfiguredIDs
Unmatched(l) == l.ID = InvalidID \/ l.ID \notin ConfiguredIDs
Count(seq, P(_)) == Cardinality({i \in DOMAIN seq : P(seq[i])})

\* C1: mergeKeys returns one loaded=true entry per loaded key and one
\* loaded=false entry per configured key no loaded key matches, and nothing
\* else: keys whose name and blob coincide are neither merged nor dropped.
C1_OneEntryPerKey ==
    mpc = "merged" =>
        /\ Len(result) = Len(argLoaded) + Cardinality(ConfiguredIDs \ MatchedIDs)
        /\ Count(result, LAMBDA d : d.Loaded) = Len(argLoaded)
        /\ \A j \in DOMAIN argLoaded :
              Count(result, LAMBDA d : /\ d.Loaded
                                       /\ d.Type = argLoaded[j].Type
                                       /\ d.Blob = EncodeToString(argLoaded[j].Blob))
              = Count(argLoaded, LAMBDA l : /\ l.Type = argLoaded[j].Type
                                            /\ l.Blob = argLoaded[j].Blob)
        /\ \A id \in ConfiguredIDs \ MatchedIDs :
              Count(result, LAMBDA d : ~d.Loaded /\ d.ID = id) = 1
        /\ \A i \in DOMAIN result :
              ~result[i].Loaded => result[i].ID \in ConfiguredIDs \ MatchedIDs
        /\ (argConfigured = <<>> /\ argLoaded = <<>>) => result = <<>>

\* Two loaded keys that agree in everything and one configured key that is
\* not loaded give three entries.
C1_Witness ==
    /\ mpc = "merged"
    /\ Len(argLoaded) = 2
    /\ argLoaded[1] = argLoaded[2]
    /\ Len(argConfigured) = 1
    /\ argLoaded[1].ID # argConfigured[1].ID
    /\ Len(result) = 3

\* The lists with the elements of s in another order.
Reorderings(s) ==
    {[i \in DOMAIN s |-> s[p[i]]] : p \in Permutations(DOMAIN s)}

\* C2: mergeKeys returns the same ordered list for every reordering of the
\* configured list and of the loaded list.
C2_OrderOfInputsIrrelevant ==
    mpc = "merged" =>
        \A c \in Reorderings(argConfigured), l \in Reorderings(argLoaded) :
            mergeKeys(c, l) = result

\* C3: the list mergeKeys returns ascends by (name, blob, id).
C3_Sorted ==
    mpc = "merged" =>
        \A i \in 1..(Len(result) - 1) : TripleLeq(result[i], result[i + 1])

\* A result of four entries in which the blob, the name and the id decide one
\* adjacent comparison each, and which the sort had to reorder.
C3_Witness ==
    /\ mpc = "merged"
    /\ Len(result) = 4
    /\ result[1].Name = result[2].Name /\ result[1].Blob # result[2].Blob
    /\ result[3].Name = result[4].Name /\ result[3].Blob = result[4].Blob
    /\ result[3].ID # result[4].ID
    /\ result[2].Name # result[3].Name
    /\ result # loadedPart(argConfigured, argLoaded)
                 \o configuredPart(argConfigured,
                                   loadedIds(argConfigured, argLoaded))

\* The entry shown for a loaded key without a configured counterpart.
InvalidEntry(l, d) ==
    /\ d.ID = InvalidID
    /\ d.Name = <<>>
    /\ d.Loaded
    /\ d.Type = l.Type
    /\ d.Blob = EncodeToString(l.Blob)

\* C4: a loaded key that derives no id, or an id that is not configured, is
\* shown as an entry with the invalid id, no name, loaded, its type and blob:
\* as many such entries as there are such keys.  With no key configured and
\* one key loaded (add, load, remove) that entry is the whole list.
C4_UnmatchedLoadedShown ==
    mpc = "merged" =>
        /\ \A j \in DOMAIN argLoaded :
              Unmatched(argLoaded[j]) =>
                  Count(result, LAMBDA d : InvalidEntry(argLoaded[j], d))
                  = Count(argLoaded, LAMBDA l : /\ Unmatched(l)
                                                /\ l.Type = argLoaded[j].Type
                                                /\ l.Blob = argLoaded[j].Blob)
        /\ (argConfigured = <<>> /\ Len(argLoaded) = 1) =>
              (Len(result) = 1 /\ InvalidEntry(argLoaded[1], result[1]))

\* The loaded key still derives the id of a key that is no longer configured.
C4_Witness ==
    /\ mpc = "merged"
    /\ argConfigured = <<>>
    /\ Len(argLoaded) = 1
    /\ argLoaded[1].ID # InvalidID
    /\ Len(result) = 1
    /\ result[1].ID = InvalidID

\* C5: no configured id is carried by more than one entry of the result.
C5_IdCarriedOnce ==
    mpc = "merged" =>
        \A id \in ConfiguredIDs : Count(result, LAMBDA d : d.ID = id) <= 1

\* C6: a configured key that no loaded key matches is shown once, with its
\* id and name, not loaded, its encrypted flag, no type and no blob; a
\* configured key that is matched has no loaded=false entry.
C6_UnloadedEntry ==
    mpc = "merged" =>
        \A i \in DOMAIN argConfigured :
            LET a == argConfigured[i]
            IN  IF a.ID \in MatchedIDs
                THEN Count(result, LAMBDA d : d.ID = a.ID /\ ~d.Loaded) = 0
                ELSE /\ Count(result, LAMBDA d : d.ID = a.ID) = 1
                     /\ Count(result, LAMBDA d :
                            d = [ID |-> a.ID, Loaded |-> FALSE,
                                 Encrypted |-> a.Encrypted, Name |-> a.Name,
                                 Type |-> "", Blob |-> <<>>]) = 1

\* An encrypted key that is not loaded beside a key that is loaded.
C6_Witness ==
    /\ mpc = "merged"
    /\ Len(argConfigured) = 2
    /\ argConfigured[1].Encrypted
    /\ argConfigured[1].ID \notin MatchedIDs
    /\ argConfigured[2].ID \in MatchedIDs
    /\ \E i \in DOMAIN result : result[i].Encrypted /\ ~result[i].Loaded

\* ----------------------------------------------- claims about the dialogs

\* C7: when a click handler of the add, passphrase or remove dialog reaches
\* the flow's callback, no listener of its opening is registered on either
\* control any more and the dialog is closed.
C7_DeregisteredBeforeOutcome ==
    pc = "callback" =>
        /\ \A c \in Controls : cur.serial \notin SerialsOf(onclick[c])
        /\ ~open[dialogOf(cur.ctl)]

\* The confirm handler of a remove dialog is about to call Manager.Remove.
C7_Witness ==
    /\ pc = "callback"
    /\ cur.ctl = "removeYes"
    /\ cur.id # InvalidID
    /\ ~degraded

\* C8: an opening of a dialog delivers its outcome at most once, over all
\* sequences of clicks and reopenings: the callback is never reached for an
\* opening whose outcome has been delivered, and the delivery issues at most
\* one manager call.
C8_OneOutcomePerOpening ==
    /\ pc = "callback" => cur.serial \notin delivered
    /\ \A c \in Controls : SerialsOf(onclick[c]) \cap delivered = {}

\* The add dialog is open for the second time, after an opening whose
\* confirmation added a key, and its outcome is being delivered.
C8_Witness ==
    /\ pc = "callback"
    /\ dialogOf(cur.ctl) = "add"
    /\ Len(configured) = 1
    /\ flows = 2

coreVars == <<configured, loaded, nextID, calls, keys, rows, errorText>>

\* C9: neither opening a dialog nor any step of a handler of its cancel
\* control issues a manager call or changes the configured keys, the loaded
\* keys, the display list or the error slot, and when the cancel is
\* delivered the input fields of the dialog are empty.
C9_CancelChangesNothing ==
    /\ [][ (\/ pc = "idle" /\ onclick' # onclick
            \/ pc # "idle" /\ ~isOk(cur.ctl)
            \/ pc' # "idle" /\ ~isOk(cur'.ctl))
           => UNCHANGED coreVars ]_vars
    /\ [](pc = "callback" /\ ~isOk(cur.ctl) =>
            /\ dialogOf(cur.ctl) = "add" => addName = <<>> /\ addKey = ""
            /\ dialogOf(cur.ctl) = "passphrase" => passphraseInput = "")

\* The passphrase dialog is being cancelled while a key is displayed and the
\* error slot shows an earlier failure.
C9_Witness ==
    /\ pc = "callback"
    /\ cur.ctl = "passphraseCancel"
    /\ keys # <<>>
    /\ errorText # <<>>

\* What every failed mutating call leaves behind: no refresh is issued and
\* the display list is the one displayed before.
FailedCall(i) == calls' = RemoveAt(calls, i) /\ UNCHANGED <<keys, rows>>

\* C10: when Add, Load, Unload or Remove fails, the error slot shows the
\* text of the operation followed by the error of the manager, no refresh is
\* issued and the display list stays as it was.
C10_FailureShown ==
    [][ \A i \in DOMAIN calls : \A e \in Errors \ {nil} :
          /\ AddCallback(i, e) =>
                errorText' = <<"failed to add key: " \o e>> /\ FailedCall(i)
          /\ LoadCallback(i, e) =>
                errorText' = <<"failed to load key: " \o e>> /\ FailedCall(i)
          /\ UnloadCallback(i, e) =>
                errorText' = <<"failed to unload key: " \o e>> /\ FailedCall(i)
          /\ RemoveCallback(i, e) =>
                errorText' = <<"failed to remove key: " \o e>> /\ FailedCall(i)
      ]_vars

\* A load with a wrong passphrase has failed: the error is shown and the key
\* is still displayed as not loaded.
C10_Witness ==
    /\ errorText = <<"failed to load key: " \o ErrPassphrase>>
    /\ calls = <<>>
    /\ \E i \in DOMAIN keys : keys[i].Encrypted /\ ~keys[i].Loaded
    /\ loaded = <<>>

\* ------------------------------------------------- claims about the flows

\* What a successful mutating call leaves behind: an empty error slot and a
\* refresh, which starts with the Configured query.
Succeeded(i) ==
    errorText' = <<>> /\ calls' = Append(RemoveAt(calls, i), ConfiguredCall)

C12_FlowStartClearsError ==
    [][ flows' # flows => errorText' = <<>> ]_vars

\* The number of Manager.Load calls in flight.
LoadCalls(cs) == Cardinality({j \in DOMAIN cs : cs[j].op = "Load"})

Showing(d) ==
    IF degraded THEN onclick[okCtl(d)] # <<>> \/ onclick[cancelCtl(d)] # <<>>
    ELSE open[d]
Resolving(d) ==
    pc \in {"deregister", "close", "callback"} /\ dialogOf(cur.ctl) = d

\* C14: from the moment a handler of the add dialog (OK or Cancel) has read
\* the inputs, through its closing the dialog and its calling the manager,
\* and for as long as the dialog is not shown again, the name and the private
\* key inputs are empty; the same holds for the passphrase input and the
\* handlers of the passphrase dialog.  No manager callback changes that.
C14_InputsEmptied ==
    /\ (Resolving("add") \/ ~Showing("add")) => (addName = <<>> /\ addKey = "")
    /\ (Resolving("passphrase") \/ ~Showing("passphrase")) => passphraseInput = ""

\* The OK handler of the add dialog has read a name and an encrypted key and
\* has not closed the dialog yet.
C14_Witness ==
    /\ pc = "close"
    /\ cur.ctl = "addOk"
    /\ cur.key = "enc"
    /\ cur.name # <<>>
    /\ addKey = ""
    /\ ~degraded
    /\ open["add"]

\* C15: every control of the add, passphrase and remove dialogs has at most
\* one click listener registered.
C15_OnePairOfHandlers ==
    \A c \in Controls : Len(onclick[c]) <= 1

\* C15, for a host whose dialogs have showModal: there the page is inert
\* while a dialog is open, no flow can be started before the open dialog is
\* resolved, and every control has at most one click listener registered.
C15_OnePairWhenModal ==
    ~degraded => \A c \in Controls : Len(onclick[c]) <= 1

\* The remove dialog is open as the second dialog of the session, with its
\* one pair of listeners.
C15_Witness ==
    /\ ~degraded
    /\ flows = 2
    /\ open["remove"]
    /\ Len(onclick["removeYes"]) = 1
    /\ Len(onclick["removeNo"]) = 1
    /\ onclick["addOk"] = <<>>

\* C16: whenever no click handler is running, no dialog is waiting for its
\* answer and no manager call is in flight, the display list is mergeKeys of
\* the configured and the loaded keys the manager holds, and the rows are
\* drawn from it (checked with a manager whose queries never fail).
C16_QuiescentDisplayCurrent ==
    (pc = "idle" /\ calls = <<>> /\ \A c \in Controls : onclick[c] = <<>>)
        => /\ keys = mergeKeys(mgrConfigured, mgrLoaded)
           /\ rows = updateDisplayedKeys(keys)

\* ------------------------------------------------ claims about dom.Dialog

\* C17: on an element without close, a Close call made while an OnClose
\* callback is registered invokes that callback once, and a Close call made
\* while none is registered (none was ever given, or the one given has been
\* cleaned up) invokes nothing.
C17_CloseSynthesized ==
    [][ (DialogClose /\ degraded) =>
            invoked' = invoked + (IF simOnClose = "set" THEN 1 ELSE 0) ]_vars

\* Three Close calls on an element without close: one before OnClose, one
\* while the callback was registered, one after its cleanup.
C17_Witness ==
    /\ dpc = "live"
    /\ degraded
    /\ closes = 3
    /\ invoked = 1
    /\ simOnClose = "released"

\* ---------------------------------------------- claims about the key rows

\* The text of the id attribute of a button: "load-", "unload-" or "remove-"
\* followed by the ID of the key.
LoadText == <<108, 111, 97, 100, 45>>
UnloadText == <<117, 110, 108, 111, 97, 100, 45>>
RemoveText == <<114, 101, 109, 111, 118, 101, 45>>

\* C18: in every rendered view the row of an entry whose ID is InvalidID has
\* no button, and the row of an entry with a valid ID has two: first the
\* button "unload-<id>" when the entry is loaded and "load-<id>" when it is
\* not, then the button "remove-<id>".
C18_RowControls ==
    \A i \in DOMAIN rows :
        LET k == rows[i].k
            b == rows[i].buttons
        IN  IF k.ID = InvalidID
            THEN b = <<>>
            ELSE b = <<(IF k.Loaded THEN UnloadText ELSE LoadText) \o k.ID,
                       RemoveText \o k.ID>>

\* The view shows at once an entry without a valid ID, which has no button,
\* and an entry with one, which has its two.
C18_Witness ==
    /\ \E i \in DOMAIN rows :
          rows[i].k.ID = InvalidID /\ rows[i].buttons = <<>>
    /\ \E i \in DOMAIN rows :
          rows[i].k.ID # InvalidID /\ Len(rows[i].buttons) = 2

\* -------------------------------------- claims about Remove of an unknown id

\* The manager holds no key with this id.
Unknown(id) == \A i \in DOMAIN configured : configured[i].ID # id

\* The display list is what mergeKeys makes of the manager's present lists.
DisplayCurrent == keys = mergeKeys(mgrConfigured, mgrLoaded)

\* The manager does not fail a Remove because it holds no key with the id.
NoErrorForUnknown(id) ==
    nil \in mgrRemoveErrors(id) /\ ErrNotConfigured \notin mgrRemoveErrors(id)

C20_AtMostOneError == Len(errorText) <= 1

\* The page after this run: a key was added, so the error slot was emptied,
\* and the refresh that followed failed, which left its error and an empty
\* display; a second Add was then refused, and the slot holds the text of
\* that refusal alone.
C20_Witness ==
    /\ errorText = <<"failed to add key: " \o ErrEmptyName>>
    /\ flows = 2
    /\ calls = <<>>
    /\ configured # <<>>
    /\ keys = <<>>

\* --------------------------------------------- claims about backend failures

\* The callback of call i runs with the error e.
FailureStep(i, e) ==
    \/ AddCallback(i, e)
    \/ LoadCallback(i, e)
    \/ UnloadCallback(i, e)
    \/ RemoveCallback(i, e)
    \/ ConfiguredCallback(i, e)
    \/ LoadedCallback(i, e)

\* No listener of an opening that has delivered its outcome is registered.
NoHandlerOfResolved ==
    \A c \in Controls : SerialsOf(onclick[c]) \cap delivered = {}

\* While no click handler is running, a dialog that is showing has a listener
\* on both of its controls, so it can be resolved either way.
Resolvable ==
    pc = "idle" =>
        \A d \in Dialogs :
            open[d] => onclick[okCtl(d)] # <<>> /\ onclick[cancelCtl(d)] # <<>>

\* What the guards of the page's controls read, apart from the budget.
Clickability == <<pc, degraded, open, onclick, rows>>

\* C21: a backend failure (Add, Load, Unload, Remove, Configured or Loaded
\* answering with an error) leaves the page idle and every control as
\* clickable as it was; no listener of the failed flow's dialog is left
\* registered; a dialog that is showing can still be resolved; and the Add
\* button and the rendered controls can start a flow unless a modal dialog
\* of another flow is showing.
C21_InteractiveAfterFailure ==
    [][ \A i \in DOMAIN calls, e \in Errors \ {nil} :
          FailureStep(i, e) =>
              /\ pc' = "idle"
              /\ UNCHANGED Clickability
              /\ NoHandlerOfResolved'
              /\ Resolvable'
              /\ (\A d \in Dialogs : ~open'[d]) => pageClickable'
      ]_vars

\* A load was refused for a wrong passphrase, and with its error showing the
\* user has opened the remove dialog, which is waiting for an answer.
C21_Witness ==
    /\ errorText = <<"failed to load key: " \o ErrPassphrase>>
    /\ pc = "idle"
    /\ onclick[okCtl("remove")] # <<>>
    /\ onclick[okCtl("add")] = <<>>
    /\ onclick[okCtl("passphrase")] = <<>>
    /\ calls = <<>>

\* ------------------------------------------------ claims about Storage

\* The items st with those of data written over them.
Override(st, data) ==
    [k \in DOMAIN st \cup DOMAIN data |->
        IF k \in DOMAIN data THEN data[k] ELSE st[k]]

\* Chrome completes call i, a call of op, with the outcome given.
Completes(i, op, outcome) == sops[i].op = op /\ ChromeComplete(i, outcome)

\* C22: when a Set(data) completes without error, every key of data is
\* stored with the value data gives it and every other item is as it was;
\* when a Get completes without error, its callback receives all the items
\* stored at that moment and no error, so a Get that follows the Set reads
\* the items of before with data written over them.
C22_SetThenGet ==
    [][ \A i \in DOMAIN sops :
          /\ Completes(i, "set", "ok") =>
                /\ sops'[i].err = nil
                /\ store' = Override(store, sops[i].data)
          /\ Completes(i, "get", "ok") =>
                /\ sops'[i].err = nil
                /\ ~sops'[i].gotNil
                /\ sops'[i].got = store
                /\ UNCHANGED store
      ]_vars

\* A Set of k1 alone has completed, and the Get made after it has read k1
\* with the value of the Set and k2 with another value, which it had before.
C22_Witness ==
    /\ Len(sops) = 2
    /\ sops[1].op = "set" /\ sops[1].done /\ sops[1].err = nil
    /\ DOMAIN sops[1].data = {"k1"}
    /\ sops[2].op = "get" /\ sops[2].done /\ sops[2].err = nil
    /\ DOMAIN sops[2].got = {"k1", "k2"}
    /\ sops[2].got["k1"] = sops[1].data["k1"]
    /\ sops[2].got["k2"] # sops[1].data["k1"]
    /\ sops[2].got = store

\* The keys a Delete call lists.
Listed(c) == {c.keys[j] : j \in DOMAIN c.keys}

\* C23: when a Delete(keys) completes without error, the items whose keys are
\* listed are gone and every other item is as it was; a listed key that was
\* not stored changes nothing, and the callback receives no error.
C23_DeleteExactly ==
    [][ \A i \in DOMAIN sops :
          Completes(i, "remove", "ok") =>
              /\ sops'[i].err = nil
              /\ sops'[i].invoked = 1
              /\ DOMAIN store' = DOMAIN store \ Listed(sops[i])
              /\ \A k \in DOMAIN store' : store'[k] = store[k]
      ]_vars

\* A Get has read k2 alone; the Delete of k1 and k2 made after it has then
\* completed without error, although k1 was not stored, and nothing is left.
C23_Witness ==
    /\ Len(sops) = 2
    /\ sops[1].op = "get" /\ sops[1].done /\ sops[1].err = nil
    /\ DOMAIN sops[1].got = {"k2"}
    /\ sops[2].op = "remove" /\ sops[2].done /\ sops[2].err = nil
    /\ sops[2].keys = <<"k1", "k2">>
    /\ DOMAIN store = {}

\* ------------------------------------------ claims about OnDOMContentLoaded

\* C24: the callback of a registration never runs more than once, and never
\* before OnDOMContentLoaded has returned; a registration made while the
\* document was loading, and not cleaned up, has run it exactly once when
\* DOMContentLoaded has been dispatched; a registration made later waits for
\* a zero timeout and has run it exactly once when the timeout has expired;
\* so no registration is left waiting for an event that has already fired.
C24_OneShotReady ==
    \A k \in DOMAIN regs :
        /\ regs[k].ran <= 1
        /\ ~regs[k].sync
        /\ inCall = k => regs[k].ran = 0
        /\ regs[k].wait = "listener" => regs[k].ran = (IF fired THEN 1 ELSE 0)
        /\ regs[k].wait = "timeout" => regs[k].ran = 0
        /\ regs[k].wait = "done" => regs[k].ran = 1
        /\ regs[k].wait = "removed" =>
              regs[k].cleaned /\ (regs[k].ran = 1 => fired)

\* The document is complete; a registration made while it was loading and a
\* registration made after the event have each run their callback once.
C24_Witness ==
    /\ readyState = "complete"
    /\ inCall = 0
    /\ Len(regs) = 2
    /\ regs[1].wait = "listener" /\ regs[1].ran = 1
    /\ regs[2].wait = "done" /\ regs[2].ran = 1

\* ------------------------------------------------- claims about the refresh

\* C25: when Manager.Configured answers a refresh with an error, the error
\* slot shows "failed to get configured keys: <error>" and Manager.Loaded is
\* not queried; when Manager.Loaded answers with an error, the slot shows
\* "failed to get loaded keys: <error>"; in both cases the display list and
\* the rows are as before.  The list and the rows change only in the step in
\* which Manager.Loaded answers without error a refresh whose Configured
\* query had succeeded.
C25_FailedRefreshKeepsList ==
    [][ /\ \A i \in DOMAIN calls, e \in Errors \ {nil} :
             /\ ConfiguredCallback(i, e) =>
                   /\ errorText' = <<"failed to get configured keys: " \o e>>
                   /\ calls' = RemoveAt(calls, i)
                   /\ UNCHANGED <<keys, rows>>
             /\ LoadedCallback(i, e) =>
                   /\ errorText' = <<"failed to get loaded keys: " \o e>>
                   /\ calls' = RemoveAt(calls, i)
                   /\ UNCHANGED <<keys, rows>>
        /\ (keys' # keys \/ rows' # rows) =>
              \E i \in DOMAIN calls :
                  /\ calls[i].op = "Loaded"
                  /\ LoadedCallback(i, nil)
      ]_vars

\* A key was added and displayed and then removed; the refresh after the
\* removal failed at its first query, so the key is still displayed, under
\* the error of the refresh.
C25_Witness ==
    /\ errorText = <<"failed to get configured keys: " \o ErrUnavailable>>
    /\ calls = <<>>
    /\ configured = <<>>
    /\ Len(keys) = 1
    /\ rows = updateDisplayedKeys(keys)

\* The ids of a list of keys.
IDsOf(ks) == {ks[m].ID : m \in DOMAIN ks}

\* C26: the list a refresh installs is mergeKeys of the configured and the
\* loaded keys as the manager held them at one instant.  An id is configured
\* from the Add that hands it out until its Remove, and a key is loaded under
\* an id only while or after the id is configured; so if the Loaded answer
\* holds a key under an id that is configured when the list is installed,
\* the instant lies after that Add, and the Configured answer the list is
\* made of holds the id as well.
C26_InstalledFromOneInstant ==
    [][ \A i \in DOMAIN calls :
          (calls[i].op = "Loaded" /\ LoadedCallback(i, nil)) =>
              \A j \in DOMAIN loaded :
                  loaded[j].ID \in IDsOf(configured) =>
                      loaded[j].ID \in IDsOf(calls[i].configured)
      ]_vars

\* The texts a failed Add, Load, Unload or Remove leaves in the error slot.
FlowErrors ==
    {p \o e : p \in {"failed to add key: ", "failed to load key: ",
                     "failed to unload key: ", "failed to remove key: "},
              e \in Errors \ {nil}}

\* C27: the completion of a refresh that a successful flow started leaves
\* the error of a failed flow in the error slot.  (The refresh was started
\* with the slot empty, so the error was set while the refresh was under
\* way.)
C27_RefreshKeepsLaterError ==
    [][ \A i \in DOMAIN calls :
          (/\ calls[i].op = "Loaded"
           /\ LoadedCallback(i, nil)
           /\ errorText # <<>>
           /\ errorText[1] \in FlowErrors) =>
              errorText' = errorText
      ]_vars

\* ------------------------------------------- claims about reusing a Dialog

\* C28: on an element without close, an OnClose made after the cleanup of
\* the previous one registers the new callback and does not panic; OnClose
\* panics only while a callback is registered that has not been cleaned up;
\* and a Close made after the cleanup runs no callback.
C28_ReusableAfterCleanup ==
    [][ /\ (DialogOnClose /\ degraded /\ simOnClose # "set") =>
              dpc' = "live" /\ simOnClose' = "set"
        /\ (DialogOnClose /\ degraded /\ dpc' = "panic") => simOnClose = "set"
        /\ (DialogClose /\ degraded /\ simOnClose = "released") =>
              invoked' = invoked
      ]_vars

\* ------------------------------------- claims about the storage callbacks

\* The error a call of kind op hands to its callback for an outcome of Chrome.
ExpectedErr(op, outcome) ==
    IF outcome = "error"
    THEN (IF op = "set" THEN "failed to set data: "
          ELSE IF op = "get" THEN "failed to get data: "
          ELSE "failed to delete data: ") \o QuotaError
    ELSE IF outcome = "garbage"
    THEN "failed to parse data: failed to read data: got unexpected type undefined"
    ELSE nil

\* C29: the callback of a Set, Get or Delete is not invoked before Chrome
\* completes the operation; the completion invokes it once and releases the
\* one-time function; it receives the prefixed error when Chrome reports one
\* (Get with nil data), the parse error and nil data when the result of Get
\* is not an object, and a nil error (Get with data) otherwise.
C29_CallbackOnceThenReleased ==
    [][ /\ \A i \in DOMAIN sops :
              /\ ~sops[i].done => sops[i].invoked = 0 /\ sops[i].cb = "live"
              /\ sops[i].done => sops[i].invoked = 1 /\ sops[i].cb = "released"
        /\ \A i \in DOMAIN sops : \A outcome \in Outcomes :
              ChromeComplete(i, outcome) =>
                  /\ sops'[i].invoked = 1
                  /\ sops'[i].cb = "released"
                  /\ sops'[i].err = ExpectedErr(sops[i].op, outcome)
                  /\ sops[i].op = "get" => (sops'[i].gotNil <=> outcome # "ok")
                  /\ \A j \in DOMAIN sops : j # i => sops'[j] = sops[j]
      ]_vars

C29_Witness ==
    /\ \E i \in DOMAIN sops :
          /\ sops[i].op = "get" /\ sops[i].done /\ sops[i].gotNil
          /\ sops[i].err = ExpectedErr("get", "garbage")
    /\ \E j \in DOMAIN sops :
          /\ sops[j].op = "remove" /\ sops[j].done
          /\ sops[j].err = "failed to delete data: " \o QuotaError

\* --------------------------------------------- claims about the round trip

\* The display is what mergeKeys gives for what the manager holds now.
DisplayFresh == keys = mergeKeys(mgrConfigured, mgrLoaded)

PublicPart(l) == [Type |-> l.Type, Blob |-> l.Blob]

\* C30: the entry mergeKeys produces for a loaded key l gives l back:
\* LoadedKey() succeeds with the type and the blob bytes of l, and a click on
\* its Unload control calls Manager.Unload with exactly that key and sets no
\* error; a click on the Unload control of an entry whose Blob is no base64
\* text sets the error "Failed to get loaded key: ..." and calls nothing.
C30_UnloadRoundTrip ==
    [][ /\ DisplayFresh =>
              \A j \in DOMAIN loaded :
                  LET d == loadedEntry(mgrConfigured, loaded[j])
                  IN  /\ \E k \in DOMAIN keys : keys[k] = d
                      /\ LoadedKey(d) = [err |-> "", key |-> PublicPart(loaded[j])]
        /\ \A i \in DOMAIN rows :
              (ClickUnload(i) /\ DisplayFresh) =>
                  /\ \E j \in DOMAIN loaded :
                        /\ rows[i].k = loadedEntry(mgrConfigured, loaded[j])
                        /\ calls' = Append(calls, UnloadCall(PublicPart(loaded[j])))
                  /\ errorText' = errorText
        /\ \A i \in DOMAIN rows :
              (ClickUnload(i) /\ DecodeString(rows[i].k.Blob).err) =>
                  /\ errorText' = <<"Failed to get loaded key: "
                                      \o "failed to decode blob: illegal base64 data">>
                  /\ calls' = calls
      ]_vars

\* The Unload control of a key with a four-byte blob was clicked while the
\* display was fresh, and Manager.Unload has been called with that key.
C30_Witness ==
    /\ DisplayFresh
    /\ loaded # <<>>
    /\ loaded[1].Blob = <<0, 251, 255, 105>>
    /\ keys[1].Blob = <<65, 80, 118, 47, 97, 81, 61, 61>>
    /\ calls # <<>>
    /\ calls[1] = UnloadCall(PublicPart(loaded[1]))

\* ------------------------------------- claims about the values of a flow

\* The handler that is running belongs to the add or the passphrase dialog.
InAdd == dialogOf(cur.ctl) = "add"
InPassphrase == dialogOf(cur.ctl) = "passphrase"

\* What a click leaves to its handlers, what a handler reads, and what its
\* callback hands to the manager: the click itself changes no input; a
\* confirming handler takes the name and key text (the passphrase) from the
\* fields as they are when it runs, a dismissing handler takes nothing; the
\* callback calls Add or Load with exactly what the handler took, and calls
\* nothing after a dismissal.
ReadThenDelivered ==
    /\ \A c \in Controls : ClickControl(c) => UNCHANGED inputVars
    /\ (HandlerClear /\ isOk(cur.ctl) /\ InAdd) =>
          cur'.name = addName /\ cur'.key = addKey
    /\ (HandlerClear /\ isOk(cur.ctl) /\ InPassphrase) =>
          cur'.passphrase = passphraseInput
    /\ (HandlerClear /\ ~isOk(cur.ctl)) =>
          cur'.name = <<>> /\ cur'.key = "" /\ cur'.passphrase = ""
    /\ (HandlerCallback /\ isOk(cur.ctl) /\ InAdd) =>
          calls' = Append(calls, AddCall(cur.name, cur.key))
    /\ (HandlerCallback /\ isOk(cur.ctl) /\ InPassphrase) =>
          calls' = Append(calls, LoadCall(cur.id, cur.passphrase))
    /\ (HandlerCallback /\ ~isOk(cur.ctl)) => calls' = calls

\* C31 (as stated): every outcome a confirming click delivers carries the
\* values the fields held at the moment of the click.  A click runs every
\* handler registered on the control, one after the other; when a handler
\* has delivered its values and another handler of the same click is still
\* to run, the fields it will read must still hold the values just delivered.
C31_ValuesHeldAtClick ==
    [][ /\ ReadThenDelivered
        /\ (HandlerCallback /\ isOk(cur.ctl) /\ disp # <<>> /\ InAdd) =>
              addName = cur.name /\ addKey = cur.key
        /\ (HandlerCallback /\ isOk(cur.ctl) /\ disp # <<>> /\ InPassphrase) =>
              passphraseInput = cur.passphrase
      ]_vars

\* C31 (amended): the first handler a click runs reads the fields as the
\* click found them, before it empties them, and Add or Load is called with
\* those values; a dismissal delivers empty strings and calls nothing; every
\* further handler of the same click finds the fields emptied and delivers
\* empty strings.
C31_FirstHandlerReadsEntered ==
    [][ /\ ReadThenDelivered
        /\ (HandlerCallback /\ disp # <<>> /\ InAdd) =>
              addName = <<>> /\ addKey = ""
        /\ (HandlerCallback /\ disp # <<>> /\ InPassphrase) =>
              passphraseInput = ""
      ]_vars

\* Add has just been called with the name and the key text that were typed,
\* the fields are empty, and a second handler of the same click is to run.
C31_Witness ==
    /\ pc = "clear"
    /\ isOk(cur.ctl) /\ InAdd
    /\ onclick[cur.ctl] = <<>>
    /\ addName = <<>> /\ addKey = ""
    /\ calls # <<>>
    /\ calls[Len(calls)] = AddCall(<<97>>, "plain")

\* ------------------------------------------------- claims about ExpandArgs

\* target[i] is the last pointer of the call to the variable it points to.
LastPointer(i) == \A j \in DOMAIN expTarget : j > i => expTarget[j] # expTarget[i]

Shorter(a, b) == IF a < b THEN a ELSE b

\* C32: after ExpandArgs, the variable target[i] points to holds args[i]
\* for every i below both lengths and undefined for every i from len(args)
\* on (when several targets point to one variable, the last of them
\* decides); no other variable changes; arguments beyond len(target) make no
\* difference; and SingleArg returns the first argument, or undefined when
\* there is none.
C32_ExpandArgs ==
    [][ /\ ExpandCall =>
              /\ \A i \in DOMAIN expTarget :
                    LastPointer(i) =>
                        cells'[expTarget[i]] =
                            IF i <= Len(expArgs) THEN expArgs[i] ELSE JSUndefined
              /\ \A c \in DOMAIN cells :
                    (\A i \in DOMAIN expTarget : expTarget[i] # c) =>
                        cells'[c] = cells[c]
              /\ cells' = ExpandArgs(cells,
                                     SubSeq(expArgs, 1,
                                            Shorter(Len(expArgs), Len(expTarget))),
                                     expTarget)
        /\ SingleCall =>
              single' = <<IF expArgs = <<>> THEN JSUndefined ELSE expArgs[1]>>
      ]_vars

\* One argument was expanded into three variables that held other values:
\* the first holds the argument, the other two are undefined.
C32_Witness ==
    /\ epc = "expanded"
    /\ expArgs = <<JSObject(<<>>)>>
    /\ expTarget = <<2, 1, 3>>
    /\ cells = <<JSUndefined, JSObject(<<>>), JSUndefined>>

===========================================================================
